---- MODULE Spec2Model ----
(***************************************************************************)
(* A model of chop-dbhi/sql-importer: the bulk loader of pg.go (Replace,   *)
(* Append, createTable, copyData, ...) running against a relational        *)
(* database, and the pure functions it is built from (splitColumns,        *)
(* cleanFieldName); the CSV reader of profile/csv (Scan, Read, ScanLine);  *)
(* the profiler of profile with the Profiler.Profile that feeds it and the *)
(* NewSchema that reads its profile; and of reader the UniversalReader and *)
(* loadDir with its goroutines.                                            *)
(*                                                                         *)
(* Go strings that the code inspects character by character (field names)  *)
(* are sequences of one-character strings; strings the code only passes    *)
(* around (table names, cell values) are TLA+ strings.  Go slices are      *)
(* sequences, so Go index i is index i + 1 here.                           *)
(***************************************************************************)
EXTENDS Integers, Sequences, FiniteSets, TLC

(***************************************************************************)
(* Bounds of the model.                                                    *)
(***************************************************************************)
\* Most data rows of one input file.
MaxRows == 2
\* Longest column list and largest size handed to splitColumns in SpecSplit.
MaxCols == 5
MaxSize == 4
\* Longest input of the CSV reader drawn from CsvBytes.
MaxText == 6
\* Most bytes in the cells of a table that is serialized and scanned back.
MaxCellBytes == 3
\* Longest input of the profiler drawn from ProfileBytes.
MaxProfileText == 4

(***************************************************************************)
(* Constants of pg.go.                                                     *)
(***************************************************************************)
rowIdColumn == "_row_id"
pgMaxTargetListSize == 1664
partSizes == <<924, 249>>
colLimitMsg == "pq: tables can have at most 1600 columns"

\* A nil interface{} / nil pointer.
Nil == "<nil>"

(***************************************************************************)
(* splitN, splitColumns                                                    *)
(***************************************************************************)
splitN(l, n) ==
    IF n > l THEN <<1, 0>> ELSE <<l \div n, l % n>>

\* The p full parts appended by the loop "for i := 0; i < p; i++".
RECURSIVE splitLoop(_, _, _, _)
splitLoop(columns, n, p, i) ==
    IF i >= p THEN <<>>
    ELSE <<SubSeq(columns, i * n + 1, i * n + n)>>
             \o splitLoop(columns, n, p, i + 1)

\* splitColumns without its "Remainder, add another part".
splitColumnsNoRemainder(columns, n) ==
    LET l == Len(columns) IN
    IF n >= l THEN <<columns>>
    ELSE splitLoop(columns, n, splitN(l, n)[1], 0)

splitColumns(columns, n) ==
    LET l == Len(columns) IN
    IF n >= l THEN <<columns>>
    ELSE LET pr == splitN(l, n)
             p  == pr[1]
             r  == pr[2]
             \* hi after the last loop iteration (0 when the loop never ran).
             hi == IF p > 0 THEN (p - 1) * n + n ELSE 0
         IN  splitLoop(columns, n, p, 0)
               \o (IF r > 0 THEN <<SubSeq(columns, hi + 1, l)>> ELSE <<>>)

(***************************************************************************)
(* cleanFieldName (strings.ToLower, then the badChars and sepChars         *)
(* regular expressions of init)                                            *)
(***************************************************************************)
UpperChars == <<"A","B","C","D","E","F","G","H","I","J","K","L","M",
                "N","O","P","Q","R","S","T","U","V","W","X","Y","Z">>
LowerChars == <<"a","b","c","d","e","f","g","h","i","j","k","l","m",
                "n","o","p","q","r","s","t","u","v","w","x","y","z">>
DigitChars == <<"0","1","2","3","4","5","6","7","8","9">>
Range(s) == {s[x] : x \in DOMAIN s}

ToLowerChar(c) ==
    IF \E x \in DOMAIN UpperChars : UpperChars[x] = c
    THEN LowerChars[CHOOSE x \in DOMAIN UpperChars : UpperChars[x] = c]
    ELSE c
ToLower(s) == [x \in DOMAIN s |-> ToLowerChar(s[x])]

\* [_\-\.\+]
sepClass == {"_", "-", ".", "+"}
\* [a-z0-9_\-\.\+], the complement of the badChars class.
goodClass == Range(LowerChars) \cup Range(DigitChars) \cup sepClass

\* regexp.ReplaceAllString(s, "_") for a pattern "[class]+": every maximal
\* run of characters of the class becomes one "_".  The class is cls, or its
\* complement when neg.
InClass(c, cls, neg) == (c \in cls) # neg
RECURSIVE replaceRuns(_, _, _, _)
replaceRuns(s, cls, neg, x) ==
    IF x > Len(s) THEN <<>>
    ELSE (IF InClass(s[x], cls, neg)
          THEN (IF x > 1 /\ InClass(s[x - 1], cls, neg) THEN <<>> ELSE <<"_">>)
          ELSE <<s[x]>>)
         \o replaceRuns(s, cls, neg, x + 1)

cleanFieldName(name) ==
    LET lowered == ToLower(name)
        noBad   == replaceRuns(lowered, goodClass, TRUE, 1)
    IN  replaceRuns(noBad, sepClass, FALSE, 1)

\* A sequence of characters as one string.
RECURSIVE String(_)
String(chars) == IF chars = <<>> THEN "" ELSE Head(chars) \o String(Tail(chars))

\* fmt.Sprintf("%s_%d", tableName, i), i a Go index.
PartName(name, goIdx) == name \o "_" \o ToString(goIdx)

(***************************************************************************)
(* The inputs of a load: a schema of F fields and a CSV file of m data     *)
(* rows of F cells (the header line is read and skipped by copyData).      *)
(***************************************************************************)
schemaName == "public"
tableName == "t"

RECURSIVE Digits(_)
Digits(k) ==
    IF k < 10 THEN <<DigitChars[k + 1]>>
    ELSE Digits(k \div 10) \o <<DigitChars[(k % 10) + 1]>>

\* Header names "F.1", "F.2", ...; SQL types from sqlTypeMap.
HeaderName(c) == <<"F", ".">> \o Digits(c)
sqlTypes == <<"text", "integer", "date">>
FieldOf(c) ==
    [Name |-> HeaderName(c), Type |-> sqlTypes[(c % 3) + 1],
     Unique |-> (c % 2 = 1), Nullable |-> (c % 5 # 0)]
SchemaOf(F) == [Cstore |-> FALSE, Fields |-> [c \in 1..F |-> FieldOf(c)]]

\* Cell j, c of the file: empty for every fourth cell of a diagonal.
CellAt(j, c) ==
    IF (j + c) % 4 = 0 THEN "" ELSE "r" \o ToString(j) \o "c" \o ToString(c)
DataOf(F, m) == [j \in 1..m |-> [c \in 1..F |-> CellAt(j, c)]]

\* Field counts: one narrow file, and one that splits in two at size 249.
Widths == {1, 250}
\* Field counts around the target-list limit: 1662 + 2 = 1664 < 1663 + 2.
WideWidths == {1662, 1663}
\* The loads a run may perform, each with the UUID Replace draws for it.
LoadIds == <<"first", "second">>
uuidNewV4(id) == "uuid-" \o id

(***************************************************************************)
(* The database: the committed state, and what each statement of           *)
(* queryTmpls does to it when it succeeds.                                 *)
(***************************************************************************)
EmptyDB == [schemas |-> {}, tables |-> <<>>, views |-> <<>>]

Without(f, k) == [x \in DOMAIN f \ {k} |-> f[x]]
Relations(d) == DOMAIN d.tables \cup DOMAIN d.views

\* create schema if not exists
ExecCreateSchema(d, sch) == [d EXCEPT !.schemas = @ \cup {sch}]
\* create table if not exists
ExecCreateTable(d, t, cols) ==
    IF t \in Relations(d) THEN d
    ELSE [d EXCEPT !.tables = @ @@ (t :> [columns |-> cols, rows |-> <<>>])]
\* drop table if exists
ExecDropTable(d, t) == [d EXCEPT !.tables = Without(@, t)]
\* drop view if exists
ExecDropView(d, v) == [d EXCEPT !.views = Without(@, v)]
\* alter table ... rename to ...: an error unless the table exists and the new
\* name is free.
CanRename(d, temp, t) == temp \in DOMAIN d.tables /\ t \notin Relations(d)
ExecRename(d, temp, t) ==
    [d EXCEPT !.tables = Without(@, temp) @@ (t :> d.tables[temp])]
\* create or replace view: an error when a table holds the name or a joined
\* table is missing.
CanCreateView(d, v, def) ==
    /\ v \notin DOMAIN d.tables
    /\ def.from \in DOMAIN d.tables
    /\ \A x \in DOMAIN def.joins : def.joins[x].table \in DOMAIN d.tables
ExecCreateView(d, v, def) == [d EXCEPT !.views = (v :> def) @@ Without(@, v)]

ColumnNames(t) == [x \in DOMAIN t.columns |-> t.columns[x].name]
\* COPY t (cols) FROM STDIN is prepared only for a table that has the columns.
CanCopy(d, t, cols) ==
    /\ t \in DOMAIN d.tables
    /\ \/ cols = ColumnNames(d.tables[t])
       \/ Range(cols) \subseteq Range(ColumnNames(d.tables[t]))
\* The stored row of a copied row: the value sent for each named column, NULL
\* for a column the copy does not name.
StoredRow(t, cols, args) ==
    IF cols = ColumnNames(t) THEN args
    ELSE [x \in DOMAIN t.columns |->
            IF \E y \in DOMAIN cols : cols[y] = t.columns[x].name
            THEN args[CHOOSE y \in DOMAIN cols : cols[y] = t.columns[x].name]
            ELSE Nil]
\* The commit of a copy transaction appends its rows.
ExecCopy(d, t, cols, sent) ==
    [d EXCEPT !.tables[t].rows =
        @ \o [x \in DOMAIN sent |-> StoredRow(d.tables[t], cols, sent[x])]]

(***************************************************************************)
(* Pure parts of the client's operations.                                  *)
(***************************************************************************)
\* createTable: the cleaned column names and the column definitions.  A
\* definition "<quoted name> <type> [unique | not null]" is kept as its parts.
columnsOf(schema) ==
    [x \in DOMAIN schema.Fields |-> String(cleanFieldName(schema.Fields[x].Name))]
\* [mutant] A unique text column is declared unique too.
columnSchemaOfUnique(f) ==
    [name |-> String(cleanFieldName(f.Name)), type |-> f.Type,
     constraint |-> IF f.Unique THEN "unique"
                    ELSE IF ~f.Nullable THEN "not null"
                    ELSE ""]
columnSchema(f) ==
    [name |-> String(cleanFieldName(f.Name)), type |-> f.Type,
     constraint |-> IF f.Unique /\ f.Type # "text" THEN "unique"
                    ELSE IF ~f.Nullable THEN "not null"
                    ELSE ""]
columnSchemasOf(schema) ==
    [x \in DOMAIN schema.Fields |-> columnSchema(schema.Fields[x])]
\* rowIdColumn + " integer not null unique"
rowIdSchema == [name |-> rowIdColumn, type |-> "integer", constraint |-> "not null unique"]

\* createTableSplits: the database after the transaction commits.
RECURSIVE createParts(_, _, _, _)
createParts(d, name, sp, x) ==
    IF x > Len(sp) THEN d
    ELSE createParts(ExecCreateTable(d, PartName(name, x - 1), <<rowIdSchema>> \o sp[x]),
                     name, sp, x + 1)
createTableSplits(d, name, sp) ==
    IF Len(sp) = 1 THEN ExecCreateTable(d, name, sp[1])
    ELSE createParts(d, name, sp, 1)
\* The tables createTableSplits names.
PlanTables(name, k) ==
    IF k = 1 THEN {name} ELSE {PartName(name, x - 1) : x \in 1..k}

\* renameSingleTable: drop table if exists, then rename.
renameSingleTable(d, temp, t) ==
    LET dd == ExecDropTable(d, t) IN
    IF CanRename(dd, temp, t) THEN [ok |-> TRUE, db |-> ExecRename(dd, temp, t)]
    ELSE [ok |-> FALSE, db |-> d]
RECURSIVE renameParts(_, _, _, _, _)
renameParts(d, temp, t, parts, goIdx) ==
    IF goIdx >= parts THEN [ok |-> TRUE, db |-> d]
    ELSE LET r == renameSingleTable(d, PartName(temp, goIdx), PartName(t, goIdx)) IN
         IF r.ok THEN renameParts(r.db, temp, t, parts, goIdx + 1)
         ELSE [ok |-> FALSE, db |-> d]
renameTable(d, temp, t, parts) ==
    IF parts = 1 THEN renameSingleTable(d, temp, t)
    ELSE renameParts(d, temp, t, parts, 0)

\* createView: the select list, the first table and the joins.
RECURSIVE selectColumns(_, _, _)
selectColumns(t, tableColumns, x) ==
    IF x > Len(tableColumns) THEN <<>>
    ELSE [y \in DOMAIN tableColumns[x] |->
            <<schemaName, PartName(t, x - 1), tableColumns[x][y]>>]
         \o selectColumns(t, tableColumns, x + 1)
createView(t, tableColumns) ==
    [columns |-> selectColumns(t, tableColumns, 1),
     from    |-> PartName(t, 0),
     joins   |-> [x \in 1..(Len(tableColumns) - 1) |->
                    [table |-> PartName(t, x),
                     left  |-> <<PartName(t, x - 1), rowIdColumn>>,
                     right |-> <<PartName(t, x), rowIdColumn>>]]]

\* copyData: the target and the column list of partition x's copy statement.
copyTarget(name, tableColumns, x) ==
    IF Len(tableColumns) = 1 THEN name ELSE PartName(name, x - 1)
copyColumns(tableColumns, x) ==
    IF Len(tableColumns) = 1 THEN tableColumns[x]
    ELSE <<rowIdColumn>> \o tableColumns[x]

\* FillArgs without the conversion of "" to nil.
FillArgsKeepEmpty(args, cells, off) ==
    [x \in DOMAIN args |->
        IF x > off /\ x - off <= Len(cells) THEN cells[x - off] ELSE args[x]]

\* "for j, v := range cells { cargs[j+off] = nil or v }"
FillArgs(args, cells, off) ==
    [x \in DOMAIN args |->
        IF x > off /\ x - off <= Len(cells)
        THEN (IF cells[x - off] = "" THEN Nil ELSE cells[x - off])
        ELSE args[x]]
\* low before partition x: the columns of the partitions before it.
RECURSIVE lowOf(_, _)
lowOf(tableColumns, x) ==
    IF x <= 1 THEN 0 ELSE lowOf(tableColumns, x - 1) + Len(tableColumns[x - 1])
\* cargs after the inner loop has handled partitions 1..x of a row.
RECURSIVE cargsAfter(_, _, _, _, _)
cargsAfter(args, row, rid, tableColumns, x) ==
    IF x = 0 THEN args
    ELSE LET before == cargsAfter(args, row, rid, tableColumns, x - 1)
             low    == lowOf(tableColumns, x)
             hi     == low + Len(tableColumns[x])
         IN  FillArgs([before EXCEPT ![1] = rid], SubSeq(row, low + 1, hi), 1)
\* The arguments of stmts[x].Exec for a row.
sentArgs(args, row, rid, tableColumns, x) ==
    IF Len(tableColumns) = 1
    THEN SubSeq(FillArgs(args, row, 0), 1, Len(tableColumns[1]))
    ELSE SubSeq(cargsAfter(args, row, rid, tableColumns, x), 1, Len(tableColumns[x]) + 1)
cargsAfterRow(args, row, rid, tableColumns) ==
    IF Len(tableColumns) = 1 THEN FillArgs(args, row, 0)
    ELSE cargsAfter(args, row, rid, tableColumns, Len(tableColumns))

\* A prepared copy statement with the rows sent so far, or a nil *sql.Stmt.
NilStmt == [nil |-> TRUE, rows |-> <<>>]
\* copyData's deferred function: stmts[i].Close(); txs[i].Rollback() for each
\* partition in turn.  Close on a nil statement panics and ends the loop;
\* Rollback of a committed transaction does nothing.
firstNilStmt(st) ==
    IF \E x \in DOMAIN st : st[x].nil
    THEN CHOOSE x \in DOMAIN st : st[x].nil /\ \A y \in 1..(x - 1) : ~st[y].nil
    ELSE 0
deferredTxs(tx, st) ==
    LET f == firstNilStmt(st) IN
    [x \in DOMAIN tx |->
        IF (f = 0 \/ x < f) /\ tx[x] = "open" THEN "rolledback" ELSE tx[x]]
deferredPanics(st) == firstNilStmt(st) # 0

(***************************************************************************)
(* profile/csv/parser.go: CSVReader.  Bytes are one-character strings and  *)
(* a []byte or a Go string the reader inspects is a sequence of them.      *)
(***************************************************************************)
csvErrUnquotedField == "unquoted field"
csvErrUnescapedQuote == "bare quote"
csvErrUnterminatedField == "unterminated field"
csvErrExtraColumns == "extra columns"
\* io.EOF, and the nil error.
EOF == "EOF"
NoErr == "nil"
\* The bytes the reader tells apart, and the zero byte of an unset variable.
Quote == "\""
Comma == ","
NewLine == "\n"
CarriageReturn == "\r"
NUL == "NUL"

\* data[lo:hi] of Go.
Slice(data, lo, hi) == SubSeq(data, lo + 1, hi)
\* The index (from 1) of the first b in data, 0 when there is none.
IndexByte(data, b) ==
    IF \E x \in DOMAIN data : data[x] = b
    THEN CHOOSE x \in DOMAIN data : data[x] = b /\ \A y \in 1..(x - 1) : data[y] # b
    ELSE 0

clearRow(row) == [x \in DOMAIN row |-> <<>>]

\* unescapeQuotes copies b over itself, one byte for each pair of quotes, and
\* returns the first len(b)-count bytes of the buffer it wrote into.
RECURSIVE unescapeCopy(_, _, _, _)
unescapeCopy(b, orig, x, j) ==
    IF x >= Len(orig) THEN b
    ELSE LET w == [b EXCEPT ![j + 1] = orig[x + 1]]
             pair == /\ orig[x + 1] = Quote
                     /\ x < Len(orig) - 1
                     /\ orig[x + 2] = Quote
         IN  unescapeCopy(w, orig, IF pair THEN x + 2 ELSE x + 1, j + 1)
\* unescapeQuotes that leaves the doubled quotes in place.
unescapeQuotesKeep(b, count) == b
unescapeQuotes(b, count) ==
    IF count = 0 THEN b
    ELSE Slice(unescapeCopy(b, b, 0, 0), 0, Len(b) - count)

\* The loop of scanField over a quoted field, from byte x (from 0) on: it ends
\* at a bare quote, at the separator after a closing quote, or out of bytes.
RECURSIVE quotedLoop(_, _, _, _, _, _, _)
quotedLoop(data, sep, x, eq, oq, c, pc) ==
    IF x >= Len(data) THEN [at |-> "end", x |-> x, eq |-> eq, c |-> c]
    ELSE LET b == data[x + 1] IN
         IF b = Quote /\ pc = Quote
         THEN quotedLoop(data, sep, x + 1, eq + 1, FALSE, b, NUL)
         ELSE IF b = Quote /\ oq
         THEN [at |-> "bare", x |-> x, eq |-> eq, c |-> b]
         ELSE IF pc = Quote /\ b = sep
         THEN [at |-> "sep", x |-> x, eq |-> eq, c |-> b]
         ELSE quotedLoop(data, sep, x + 1, eq, oq \/ b = Quote, b, b)

\* The loop over an unquoted field that takes a quote for any other byte.
firstSeparator(data, s, q) ==
    IF s # 0 THEN [at |-> "sep", x |-> s - 1] ELSE [at |-> "end", x |-> Len(data)]
\* The loop of scanField over an unquoted field: s and q are where the first
\* separator and the first quote are (from 1, 0 for none).
firstOf(data, s, q) ==
    IF s # 0 /\ (q = 0 \/ s < q) THEN [at |-> "sep", x |-> s - 1]
    ELSE IF q # 0 THEN [at |-> "quote", x |-> q - 1]
    ELSE [at |-> "end", x |-> Len(data)]
unquotedLoop(data, sep) == firstOf(data, IndexByte(data, sep), IndexByte(data, Quote))

\* scanField: the reader it leaves and the four values it returns.
FieldResult(s, adv, token, trail, err) ==
    [s |-> s, adv |-> adv, token |-> token, trail |-> trail, err |-> err]
\* A quoted field whose loop ended as l; s is the reader at the loop and ended
\* the reader once the bytes ran out.
quotedField(s, ended, data, l) ==
    CASE l.at = "bare" -> FieldResult(s, 0, <<>>, FALSE, csvErrUnescapedQuote)
      [] l.at = "sep" ->
           FieldResult(s, l.x + 1, unescapeQuotes(Slice(data, 1, l.x - 1), l.eq),
                       TRUE, NoErr)
      [] l.at = "end" /\ l.c = Quote ->
           FieldResult(ended, Len(data),
                       unescapeQuotes(Slice(data, 1, Len(data) - 1), l.eq), FALSE, NoErr)
      [] OTHER -> FieldResult(ended, 0, <<>>, FALSE, csvErrUnterminatedField)
unquotedField(s, ended, data, l) ==
    CASE l.at = "sep" -> FieldResult(s, l.x + 1, Slice(data, 0, l.x), TRUE, NoErr)
      [] l.at = "quote" -> FieldResult(s, 0, <<>>, FALSE, csvErrUnquotedField)
      [] OTHER -> FieldResult(ended, Len(data), data, FALSE, NoErr)
scanField(s, data) ==
    IF s.trail
    THEN FieldResult([s EXCEPT !.column = @ + 1, !.eor = TRUE, !.trail = FALSE],
                     0, data, FALSE, NoErr)
    ELSE IF Len(data) = 0
    THEN FieldResult(s, 0, <<>>, FALSE, NoErr)
    ELSE LET s1 == IF s.eor THEN [s EXCEPT !.column = 0, !.lineno = @ + 1] ELSE s
             s2 == [s1 EXCEPT !.column = @ + 1, !.eor = FALSE]
             ended == [s2 EXCEPT !.eor = TRUE]
         IN  IF data[1] = Quote
             THEN quotedField(s2, ended, data,
                              quotedLoop(data, s.sep, 1, 0, FALSE, NUL, NUL))
             ELSE unquotedField(s2, ended, data, unquotedLoop(data, s.sep))

\* bufio.ScanLines: the next line without its end-of-line marker.
dropCR(d) ==
    IF Len(d) > 0 /\ d[Len(d)] = CarriageReturn THEN Slice(d, 0, Len(d) - 1) ELSE d
\* bufio.Scanner.Scan over the bytes left in the reader; read counts the lines
\* it has returned.
lineAt(sc, p) ==
    IF p # 0
    THEN [ok |-> TRUE, text |-> dropCR(Slice(sc.rest, 0, p - 1)),
          sc |-> [rest |-> Slice(sc.rest, p, Len(sc.rest)), read |-> sc.read + 1]]
    ELSE [ok |-> TRUE, text |-> dropCR(sc.rest),
          sc |-> [rest |-> <<>>, read |-> sc.read + 1]]
scScan(sc) ==
    IF Len(sc.rest) = 0 THEN [ok |-> FALSE, text |-> <<>>, sc |-> sc]
    ELSE lineAt(sc, IndexByte(sc.rest, NewLine))

\* NewCSVReader(r, sep) over a reader holding the bytes text.
NewCSVReader(text, sep) ==
    [ContinueOnError |-> TRUE, sc |-> [rest |-> text, read |-> 0], sep |-> sep,
     eor |-> TRUE, lineno |-> 0, column |-> 0, eof |-> FALSE, err |-> NoErr,
     line |-> <<>>, token |-> <<>>, data |-> <<>>, trail |-> FALSE]
DefaultCSVReader(text) == NewCSVReader(text, Comma)

Line(s) == s.line
Text(s) == s.token
LineNumber(s) == s.lineno
ColumnNumber(s) == s.column
EndOfRecord(s) == s.eor
\* Err: the line scanner reads from memory and has no error of its own.
Err(s) ==
    IF s.err # NoErr THEN s.err ELSE IF s.eof THEN EOF ELSE NoErr

\* Scan, at the end of a record: scan until there is a non-empty line; l is
\* what the line scanner returned.
RECURSIVE scanToLine(_)
lineScanned(s, l) ==
    IF ~l.ok THEN [s EXCEPT !.eof = TRUE]
    ELSE IF l.text # <<>>
    THEN [s EXCEPT !.sc = l.sc, !.line = l.text, !.data = l.text]
    ELSE scanToLine([s EXCEPT !.sc = l.sc, !.line = l.text])
scanToLine(s) == lineScanned(s, scScan(s.sc))

\* Scan that leaves the token scanField returned on a field error.
errorTokenOfField(f, rest) == f.token
\* The token Scan sets on a field error.
errorToken(f, rest) == rest
\* What is left of the line after a field.
restOf(data, adv) == Slice(data, adv, Len(data))

\* Scan that does not remember a separator at the end of the line.
trailForgotten(s, f, rest) == s.trail
\* Scan's s.trail after scanField returned f to the reader s, with rest left
\* of the line.
trailAfter(s, f, rest) == IF f.trail /\ Len(rest) = 0 THEN TRUE ELSE s.trail

\* Scan that does not end the record on a field error.
scannedInRecord(s, f, rest) ==
    LET s2 == [f.s EXCEPT !.data = rest, !.err = f.err,
                          !.trail = IF f.trail /\ Len(rest) = 0 THEN TRUE ELSE @]
        s3 == IF f.err = NoErr THEN [s2 EXCEPT !.token = f.token]
              ELSE IF s.ContinueOnError THEN [s2 EXCEPT !.token = rest]
              ELSE s2
    IN  IF f.err # NoErr /\ ~s.ContinueOnError THEN [s |-> s3, ok |-> FALSE]
        ELSE [s |-> s3, ok |-> ~(~s3.trail /\ s3.eof /\ Len(s3.data) = 0)]
\* Scan after scanField returned f, with rest left of the line: the reader it
\* leaves and the boolean it returns.
scanned(s, f, rest) ==
    LET s2 == [f.s EXCEPT !.data = rest, !.err = f.err,
                          !.trail = trailAfter(f.s, f, rest)]
        s3 == IF f.err = NoErr THEN [s2 EXCEPT !.token = f.token]
              ELSE IF s.ContinueOnError
              THEN [s2 EXCEPT !.token = errorToken(f, rest), !.eor = TRUE]
              ELSE s2
    IN  IF f.err # NoErr /\ ~s.ContinueOnError THEN [s |-> s3, ok |-> FALSE]
        ELSE [s |-> s3, ok |-> ~(~s3.trail /\ s3.eof /\ Len(s3.data) = 0)]
scanData(s, data, f) == scanned(s, f, restOf(data, f.adv))
scanLine(s) == scanData(s, s.data, scanField(s, s.data))
\* [mutant] Scan without its check of an earlier error.
scanPastError(s) ==
    IF s.eof /\ Len(s.data) = 0 THEN [s |-> s, ok |-> FALSE]
    ELSE IF s.eor
    THEN scanLine(scanToLine([s EXCEPT !.line = <<>>, !.data = <<>>, !.token = <<>>]))
    ELSE scanLine(s)
Scan(s) ==
    IF s.err # NoErr /\ ~s.ContinueOnError THEN [s |-> s, ok |-> FALSE]
    ELSE IF s.eof /\ Len(s.data) = 0 THEN [s |-> s, ok |-> FALSE]
    ELSE IF s.eor
    THEN scanLine(scanToLine([s EXCEPT !.line = <<>>, !.data = <<>>, !.token = <<>>]))
    ELSE scanLine(s)

\* Read: the fields of one line as a new slice; t is what Scan returned.
RECURSIVE readLoop(_, _)
readStep(t, r) ==
    IF ~t.ok THEN [s |-> t.s, r |-> r, err |-> Err(t.s)]
    ELSE IF Err(t.s) # NoErr THEN [s |-> t.s, r |-> <<>>, err |-> Err(t.s)]
    ELSE IF EndOfRecord(t.s)
    THEN [s |-> t.s, r |-> Append(r, Text(t.s)), err |-> Err(t.s)]
    ELSE readLoop(t.s, Append(r, Text(t.s)))
readLoop(s, r) == readStep(Scan(s), r)
Read(s) == readLoop(s, <<>>)

\* ScanLine(r): the loop from index x (from 0) on; t is what Scan returned.
RECURSIVE scanLineLoop(_, _, _)
scanLineStep(t, r, x) ==
    IF ~t.ok THEN [s |-> t.s, r |-> r, err |-> Err(t.s)]
    ELSE IF x = Len(r) THEN [s |-> t.s, r |-> r, err |-> csvErrExtraColumns]
    ELSE IF Err(t.s) # NoErr
    THEN [s |-> t.s, err |-> Err(t.s),
          r |-> Slice(r, 0, x) \o clearRow(Slice(r, x, Len(r)))]
    ELSE IF EndOfRecord(t.s)
    THEN [s |-> t.s, r |-> [r EXCEPT ![x + 1] = Text(t.s)], err |-> Err(t.s)]
    ELSE scanLineLoop(t.s, [r EXCEPT ![x + 1] = Text(t.s)], x + 1)
scanLineLoop(s, r, x) == scanLineStep(Scan(s), r, x)
ScanLine(s, r) == scanLineLoop(s, r, 0)

(***************************************************************************)
(* profile: the types of values and how a value is parsed.  A value is a   *)
(* sequence of bytes; each parser is modelled by its second return value,  *)
(* the only one the profiler reads.                                        *)
(***************************************************************************)
UnknownType == "unknown"
NullType == "null"
StringType == "string"
IntType == "integer"
FloatType == "float"
BoolType == "boolean"
DateType == "date"
DateTimeType == "datetime"
BinaryType == "binary"
ObjectType == "object"
ValueTypes ==
    {UnknownType, NullType, StringType, BinaryType, IntType, FloatType, BoolType,
     DateType, DateTimeType, ObjectType}

typeGeneralizationMap ==
    (<<BoolType, IntType>> :> IntType) @@ (<<IntType, FloatType>> :> FloatType)
        @@ (<<BoolType, FloatType>> :> FloatType)
        @@ (<<DateTimeType, DateType>> :> DateTimeType)
\* [mutant] The first of the two types, whatever the second.
generalizeFirst(t1, t2) == t1
\* [mutant] The map is read in one order of the two types only.
generalizeInOrder(t1, t2) ==
    IF t1 = t2 THEN t1
    ELSE IF t1 = NullType THEN t2
    ELSE IF t2 = NullType THEN t1
    ELSE IF <<t1, t2>> \in DOMAIN typeGeneralizationMap
    THEN typeGeneralizationMap[<<t1, t2>>]
    ELSE StringType
GeneralizeType(t1, t2) ==
    IF t1 = t2 THEN t1
    ELSE IF t1 = NullType THEN t2
    ELSE IF t2 = NullType THEN t1
    ELSE IF <<t1, t2>> \in DOMAIN typeGeneralizationMap
    THEN typeGeneralizationMap[<<t1, t2>>]
    ELSE IF <<t2, t1>> \in DOMAIN typeGeneralizationMap
    THEN typeGeneralizationMap[<<t2, t1>>]
    ELSE StringType

isDigit(c) == c \in Range(DigitChars)
digitValue(c) == (CHOOSE x \in DOMAIN DigitChars : DigitChars[x] = c) - 1
allDigits(s) == \A x \in DOMAIN s : isDigit(s[x])
Signs == {"+", "-"}
RECURSIVE stripZeros(_)
stripZeros(s) == IF s # <<>> /\ s[1] = "0" THEN stripZeros(Tail(s)) ELSE s
\* Two texts of digits of one length: a is at most b.
atMost(a, b) ==
    \/ a = b
    \/ \E x \in DOMAIN a :
           /\ digitValue(a[x]) < digitValue(b[x])
           /\ \A y \in 1..(x - 1) : a[y] = b[y]
\* 1<<63 - 1 and 1<<63 in digits: the range of an int64.
maxInt64 == <<"9","2","2","3","3","7","2","0","3","6","8","5","4","7","7","5","8","0","7">>
minInt64 == <<"9","2","2","3","3","7","2","0","3","6","8","5","4","7","7","5","8","0","8">>
inRange(digits, limit) ==
    \/ Len(digits) < Len(limit)
    \/ Len(digits) = Len(limit) /\ atMost(digits, limit)

hasLeadingZeros(s) == IF s = <<>> THEN FALSE ELSE s[1] = "0"

\* strconv.ParseInt(s, 10, 64): a sign or none, then digits, within int64.
unsignedInt(digits, limit) ==
    digits # <<>> /\ allDigits(digits) /\ inRange(stripZeros(digits), limit)
ParseInt(s) ==
    IF s = <<>> THEN FALSE
    ELSE IF s[1] = "-" THEN unsignedInt(Tail(s), minInt64)
    ELSE IF s[1] = "+" THEN unsignedInt(Tail(s), maxInt64)
    ELSE unsignedInt(s, maxInt64)

\* strconv.ParseFloat(s, 64).  The decimal form: a sign or none, digits with
\* at most one point and at least one digit, and an exponent or none; or inf,
\* infinity (with a sign or none) or nan, in any case.  The values of the
\* inputs are short: the hexadecimal form and an exponent of more than two
\* digits, the only ones that can leave the range of a float64, are not among
\* them.
unsigned(s) == IF s # <<>> /\ s[1] \in Signs THEN Tail(s) ELSE s
mantissa(s) ==
    /\ \A x \in DOMAIN s : isDigit(s[x]) \/ s[x] = "."
    /\ \E x \in DOMAIN s : isDigit(s[x])
    /\ Cardinality({x \in DOMAIN s : s[x] = "."}) <= 1
exponent(s) ==
    /\ unsigned(s) # <<>>
    /\ allDigits(unsigned(s))
    /\ Len(stripZeros(unsigned(s))) <= 2
decimalAt(s, e) ==
    IF e = 0 THEN mantissa(s)
    ELSE mantissa(SubSeq(s, 1, e - 1)) /\ exponent(SubSeq(s, e + 1, Len(s)))
decimal(s) == decimalAt(s, IndexByte(ToLower(s), "e"))
special(s) ==
    \/ ToLower(unsigned(s)) \in {<<"i","n","f">>, <<"i","n","f","i","n","i","t","y">>}
    \/ ToLower(s) = <<"n","a","n">>
ParseFloat(s) == special(s) \/ decimal(unsigned(s))

\* strings.TrimSpace.
WhiteSpace == {" ", "\t", "\n", "\r", "\f"}
RECURSIVE TrimLeft(_)
TrimLeft(s) == IF s # <<>> /\ s[1] \in WhiteSpace THEN TrimLeft(Tail(s)) ELSE s
RECURSIVE TrimRight(_)
TrimRight(s) ==
    IF s # <<>> /\ s[Len(s)] \in WhiteSpace THEN TrimRight(SubSeq(s, 1, Len(s) - 1))
    ELSE s
TrimSpace(s) == TrimRight(TrimLeft(s))

\* strconv.ParseBool.
boolTexts ==
    {<<"1">>, <<"t">>, <<"T">>, <<"T","R","U","E">>, <<"t","r","u","e">>,
     <<"T","r","u","e">>, <<"0">>, <<"f">>, <<"F">>, <<"F","A","L","S","E">>,
     <<"f","a","l","s","e">>, <<"F","a","l","s","e">>}
ParseBool(s) == TrimSpace(s) \in boolTexts

\* time.Parse.  A layout is the sequence of its elements: 2006 is a year of
\* four digits, 06 one of two, 01 and 02 a month and a day of two digits, 1
\* and 2 a month and a day of one or two, 15 an hour of one or two digits, 04
\* and 05 a minute and a second of two, Z07:00 a zone; every other element is
\* a byte the value holds as it is.
dateFormats ==
    << <<"2006", "-", "01", "-", "02">>,
       <<"01", "-", "02", "-", "2006">>,
       <<"01", "-", "02", "-", "06">>,
       <<"01", "/", "02", "/", "2006">>,
       <<"01", "/", "02", "/", "06">>,
       <<"1", "/", "2", "/", "06">> >>
dateTimeFormats ==
    << <<"2006", "-", "01", "-", "02", " ", "15", ":", "04">>,
       <<"2006", "-", "01", "-", "02", " ", "15", ":", "04", ":", "05">>,
       <<"2006", "-", "01", "-", "02", "T", "15", ":", "04", ":", "05">>,
       <<"2006", "-", "01", "-", "02", "T", "15", ":", "04", ":", "05", "Z">>,
       <<"2006", "-", "01", "-", "02", "T", "15", ":", "04", ":", "05", "Z07:00">> >>

\* What an element took from the value: how many bytes, and the number n it
\* set in the field of the date it is about ("none" when it sets nothing).
Taken(adv, fld, num) == [ok |-> TRUE, adv |-> adv, field |-> fld, n |-> num]
NotTaken == [ok |-> FALSE, adv |-> 0, field |-> "none", n |-> 0]
\* getnum: a number of two digits, or of one when fixed is false.
getnum(value, fixed, fld) ==
    IF Len(value) < 1 \/ ~isDigit(value[1]) THEN NotTaken
    ELSE IF Len(value) < 2 \/ ~isDigit(value[2])
    THEN IF fixed THEN NotTaken ELSE Taken(1, fld, digitValue(value[1]))
    ELSE Taken(2, fld, 10 * digitValue(value[1]) + digitValue(value[2]))
\* The number an element took is inside lo..hi.
within(t, lo, hi) == IF t.ok /\ t.n >= lo /\ t.n <= hi THEN t ELSE NotTaken
longYear(value) ==
    IF Len(value) < 4 \/ ~allDigits(SubSeq(value, 1, 4)) THEN NotTaken
    ELSE Taken(4, "year", 1000 * digitValue(value[1]) + 100 * digitValue(value[2])
                            + 10 * digitValue(value[3]) + digitValue(value[4]))
\* The year of two bytes: atoi takes a sign for the first of them.
century(y) == IF y >= 69 THEN 1900 + y ELSE 2000 + y
shortYear(value) ==
    IF Len(value) < 2 \/ ~isDigit(value[2]) THEN NotTaken
    ELSE IF isDigit(value[1])
    THEN Taken(2, "year", century(10 * digitValue(value[1]) + digitValue(value[2])))
    ELSE IF value[1] = "+" THEN Taken(2, "year", century(digitValue(value[2])))
    ELSE IF value[1] = "-" THEN Taken(2, "year", century(0 - digitValue(value[2])))
    ELSE NotTaken
\* The digits of a fraction after the seconds, which the layouts do not name.
RECURSIVE digitsFrom(_, _)
digitsFrom(value, x) ==
    IF x < Len(value) /\ isDigit(value[x + 1]) THEN digitsFrom(value, x + 1) ELSE x
seconds(value, t) ==
    IF ~t.ok THEN NotTaken
    ELSE IF /\ Len(value) >= 4
            /\ value[3] \in {".", ","}
            /\ isDigit(value[4])
    THEN Taken(digitsFrom(value, 4), "none", 0)
    ELSE t
zone(value) ==
    IF Len(value) >= 1 /\ value[1] = "Z" THEN Taken(1, "none", 0)
    ELSE IF /\ Len(value) >= 6
            /\ value[1] \in Signs
            /\ value[4] = ":"
            /\ allDigits(SubSeq(value, 2, 3)) /\ allDigits(SubSeq(value, 5, 6))
            /\ 10 * digitValue(value[2]) + digitValue(value[3]) <= 24
            /\ 10 * digitValue(value[5]) + digitValue(value[6]) <= 60
    THEN Taken(6, "none", 0)
    ELSE NotTaken
parseElement(std, value) ==
    CASE std = "2006" -> longYear(value)
      [] std = "06" -> shortYear(value)
      [] std = "01" -> within(getnum(value, TRUE, "month"), 1, 12)
      [] std = "1" -> within(getnum(value, FALSE, "month"), 1, 12)
      [] std = "02" -> getnum(value, TRUE, "day")
      [] std = "2" -> getnum(value, FALSE, "day")
      [] std = "15" -> within(getnum(value, FALSE, "none"), 0, 23)
      [] std = "04" -> within(getnum(value, TRUE, "none"), 0, 59)
      [] std = "05" -> seconds(value, within(getnum(value, TRUE, "none"), 0, 59))
      [] std = "Z07:00" -> zone(value)
      [] OTHER -> IF Len(value) >= 1 /\ value[1] = std THEN Taken(1, "none", 0)
                  ELSE NotTaken
isLeap(year) == year % 4 = 0 /\ (year % 100 # 0 \/ year % 400 = 0)
daysIn(month, year) ==
    IF month = 2 THEN (IF isLeap(year) THEN 29 ELSE 28)
    ELSE IF month \in {4, 6, 9, 11} THEN 30
    ELSE 31
\* Parse from the element at the head of layout on; d is the date so far and
\* t what that element took from value.
RECURSIVE parseFrom(_, _, _)
parsedElement(layout, value, d, t) ==
    IF ~t.ok THEN FALSE
    ELSE parseFrom(Tail(layout), Slice(value, t.adv, Len(value)),
                   [d EXCEPT ![t.field] = t.n])
parseFrom(layout, value, d) ==
    IF layout = <<>>
    THEN value = <<>> /\ d.day >= 1 /\ d.day <= daysIn(d.month, d.year)
    ELSE parsedElement(layout, value, d, parseElement(Head(layout), value))
timeParse(layout, value) ==
    parseFrom(layout, value, [year |-> 0, month |-> 1, day |-> 1, none |-> 0])

ParseDate(s) == \E x \in DOMAIN dateFormats : timeParse(dateFormats[x], TrimSpace(s))
ParseDateTime(s) ==
    \E x \in DOMAIN dateTimeFormats : timeParse(dateTimeFormats[x], TrimSpace(s))

(***************************************************************************)
(* profile/profiler.go: the profiler.  Fields maps the name of a field to  *)
(* its profilerField; Types and Values are the key sets of the Go maps.    *)
(***************************************************************************)
\* A Go map as a set of keys: make(map...) and the nil map.
MakeMap == [nil |-> FALSE, keys |-> {}]
NilMap == [nil |-> TRUE, keys |-> {}]
newProfilerField(name) ==
    [Name |-> name, Types |-> {}, Values |-> MakeMap, Unique |-> TRUE,
     LeadingZeros |-> FALSE]
\* NewProfiler(c); c is the Config, its lists empty when the pointer is nil.
NilConfig == [Include |-> <<>>, Exclude |-> <<>>]
NewProfiler(c) ==
    [Count |-> 0, Fields |-> <<>>,
     Exclude |-> {ToLower(f) : f \in Range(c.Exclude)},
     Include |-> {ToLower(f) : f \in Range(c.Include)}]

Incr(p) == [p EXCEPT !.Count = @ + 1]

\* field(n): the profiler with the field profile in it, the lower-case name
\* that is its key, and whether the field is to be profiled.
fieldNamed(p, name) ==
    IF name \in p.Exclude THEN [p |-> p, name |-> name, ok |-> FALSE]
    ELSE IF p.Include # {} /\ name \notin p.Include
    THEN [p |-> p, name |-> name, ok |-> FALSE]
    ELSE IF name \in DOMAIN p.Fields THEN [p |-> p, name |-> name, ok |-> TRUE]
    ELSE [p |-> [p EXCEPT !.Fields = (name :> newProfilerField(name)) @@ @],
          name |-> name, ok |-> TRUE]
field(p, name) == fieldNamed(p, ToLower(name))

\* Record: the field profile after the value v, first its uniqueness ...
\* [mutant] The values seen are kept when one of them is seen again.
seenKept(f, v) ==
    IF ~f.Unique THEN f
    ELSE IF v \in f.Values.keys THEN [f EXCEPT !.Unique = FALSE]
    ELSE [f EXCEPT !.Values.keys = @ \cup {v}]
\* [mutant] A value seen before is not noticed.
seenNever(f, v) == [f EXCEPT !.Values.keys = @ \cup {v}]
seen(f, v) ==
    IF ~f.Unique THEN f
    ELSE IF v \in f.Values.keys THEN [f EXCEPT !.Unique = FALSE, !.Values = NilMap]
    ELSE [f EXCEPT !.Values.keys = @ \cup {v}]
\* ... then its types.
typed(f, v) ==
    IF StringType \in f.Types THEN f
    ELSE IF ParseInt(v)
    THEN [f EXCEPT !.LeadingZeros = @ \/ hasLeadingZeros(v),
                   !.Types = @ \cup {IntType}]
    ELSE IF ParseFloat(v) THEN [f EXCEPT !.Types = @ \cup {FloatType}]
    ELSE IF ParseBool(v) THEN [f EXCEPT !.Types = @ \cup {BoolType}]
    ELSE IF ParseDate(v) THEN [f EXCEPT !.Types = @ \cup {DateType}]
    ELSE IF ParseDateTime(v) THEN [f EXCEPT !.Types = @ \cup {DateTimeType}]
    ELSE [f EXCEPT !.Types = @ \cup {StringType}]
recordIn(g, v) ==
    IF ~g.ok THEN g.p ELSE [g.p EXCEPT !.Fields[g.name] = typed(seen(@, v), v)]
Record(p, name, v) == recordIn(field(p, name), v)

recordTypeIn(g, t) ==
    IF ~g.ok THEN g.p ELSE [g.p EXCEPT !.Fields[g.name].Types = @ \cup {t}]
RecordType(p, name, v, t) == recordTypeIn(field(p, name), t)

\* Type folds GeneralizeType over the types in the order the map yields
\* them, which Go leaves open: Type is the set of the types it may return.
Orders(S) ==
    {q \in [1..Cardinality(S) -> S] : \A x, y \in DOMAIN q : x # y => q[x] # q[y]}
RECURSIVE typeLoop(_, _)
typeLoop(order, g) ==
    IF order = <<>> THEN g
    ELSE typeLoop(Tail(order),
                  IF g = UnknownType THEN Head(order)
                  ELSE GeneralizeType(Head(order), g))
\* [mutant] The type of the types alone, leading zeros or not.
typeOfTypes(f) == {typeLoop(q, UnknownType) : q \in Orders(f.Types)}
Type(f) ==
    IF f.LeadingZeros THEN {StringType}
    ELSE {typeLoop(q, UnknownType) : q \in Orders(f.Types)}
\* Field: the fields it may return, one for each type.
Field(f) ==
    {[Name |-> f.Name, Index |-> 0, Type |-> t, Nullable |-> NullType \in f.Types,
      Missing |-> FALSE, Unique |-> f.Unique, LeadingZeros |-> f.LeadingZeros] :
        t \in Type(f)}
\* Profile: the profiles it may return.
Profile(p) ==
    {[RecordCount |-> p.Count, Fields |-> fs] :
        fs \in {m \in [DOMAIN p.Fields -> UNION {Field(p.Fields[k]) : k \in DOMAIN p.Fields}] :
                   \A k \in DOMAIN p.Fields : m[k] \in Field(p.Fields[k])}}

(***************************************************************************)
(* profile/csv: Profiler.Profile over a CSV input.                         *)
(***************************************************************************)
\* The names of the columns: the first record in lower case, or c0, c1, ...
headerOf(record, hasHeader) ==
    [x \in DOMAIN record |->
        IF hasHeader THEN ToLower(record[x]) ELSE <<"c">> \o Digits(x - 1)]
\* The loop over the header that profiles one record, from index x (from 0):
\* an empty string is a null value.
RECURSIVE profileRecord(_, _, _, _)
profileRecord(p, header, record, x) ==
    IF x >= Len(header) THEN p
    ELSE profileRecord(IF record[x + 1] = <<>>
                       THEN RecordType(p, header[x + 1], Nil, NullType)
                       ELSE Record(p, header[x + 1], record[x + 1]),
                       header, record, x + 1)
\* The loop that sets the index of each field in the profile; it reads the
\* field of every name of the header.
withIndexes(profile, header) ==
    [profile EXCEPT !.Fields =
        [k \in DOMAIN @ |->
            [@[k] EXCEPT !.Index =
                IF \E x \in DOMAIN header : header[x] = k
                THEN (CHOOSE x \in DOMAIN header :
                          header[x] = k /\ \A y \in DOMAIN header : header[y] = k => y <= x) - 1
                ELSE @]]]
\* A name of the header has no field in the profile: pf.Fields[name] is nil.
nilField(p, header) == \E x \in DOMAIN header : header[x] \notin DOMAIN p.Fields

(***************************************************************************)
(* State.                                                                  *)
(***************************************************************************)
VARIABLES
    db,            \* the committed database
    pc,            \* where the client is: "idle", a step of a load, "done"
    mode,          \* "replace" or "append": the call in progress
    tableSchema,   \* its *Schema argument
    data,          \* its io.Reader argument: the data rows after the header
    tempTableName, \* Replace's tempTableName
    loads,         \* loads started so far
    sizeIdx,       \* createTable: index of the size being tried
    attempts,      \* createTable: the sizes tried and how each ended
    splits,        \* the column splits createTable returned
    i,             \* copyData: the partition a loop is at
    txs,           \* copyData: "nil", "open", "committed" or "rolledback"
    stmts,         \* copyData: the copy statements
    cargs,         \* copyData: the argument buffer
    pos,           \* copyData: records read after the header
    rowid,         \* copyData: rowid
    n,             \* copyData: n
    ret,           \* what the call returned: n, err and the step that failed
    pre,           \* the database when the call began
    prev,          \* the call before this one: its mode, error and partitions
    log,           \* the statements the call has issued
    input,         \* SpecSplit: the arguments of splitColumns
    output,        \* SpecSplit: its result, once called
    src,           \* the bytes of the io.Reader handed to the CSV reader
    reader,        \* the CSVReader
    out,           \* the slice handed to ScanLine
    result,        \* what the last call on the reader returned
    hist,          \* the calls made on the reader and what each one left
    prof,          \* Profiler.Profile: the profiler p
    header,        \* Profiler.Profile: the names of the columns
    pf,            \* the *Profile that Profiler.Profile returned, or nil
    phase,         \* where Profiler.Profile is: "start", "records", "returned"
    walk,          \* loadDir: the entries of the tree filepath.Walk has visited
    workers,       \* loadDir: the goroutine of each entry, where it is
    wg             \* loadDir: the counter of the WaitGroup

reqVars == <<mode, tableSchema, data, tempTableName, loads, pre, prev>>
copyVars == <<i, txs, stmts, cargs, pos, rowid, n>>
pureVars == <<input, output>>
csvVars == <<src, reader, out, result, hist>>
dirVars == <<walk, workers, wg>>
profVars == <<prof, header, pf, phase>>
vars == <<db, pc, mode, tableSchema, data, tempTableName, loads, sizeIdx, attempts,
          splits, i, txs, stmts, cargs, pos, rowid, n, ret, pre, prev, log, input,
          output, src, reader, out, result, hist, prof, header, pf, phase, walk,
          workers, wg>>

NoInput == [columns |-> <<>>, n |-> 0]
NoOutput == [called |-> FALSE, colparts |-> <<>>]

\* No directory being loaded.
DirIdle ==
    /\ walk = 0
    /\ workers = <<>>
    /\ wg = 0
LoaderIdle ==
    /\ db = EmptyDB
    /\ pc = "idle"
    /\ mode = "none"
    /\ tableSchema = SchemaOf(0)
    /\ data = <<>>
    /\ tempTableName = ""
    /\ loads = 0
    /\ sizeIdx = 1
    /\ attempts = <<>>
    /\ splits = <<>>
    /\ i = 0
    /\ txs = <<>>
    /\ stmts = <<>>
    /\ cargs = <<>>
    /\ pos = 0
    /\ rowid = 0
    /\ n = 0
    /\ ret = [n |-> 0, err |-> "nil", at |-> "idle"]
    /\ pre = EmptyDB
    /\ prev = [mode |-> "none", err |-> "nil", parts |-> 0]
    /\ log = {}
LoaderInit == LoaderIdle /\ DirIdle

\* No CSV reader in use.
NoResult == [call |-> "none", ok |-> FALSE, err |-> NoErr]
\* No profiler at work.
ProfIdle ==
    /\ prof = NewProfiler(NilConfig)
    /\ header = <<>>
    /\ pf = Nil
    /\ phase = "idle"
CsvIdle ==
    /\ ProfIdle
    /\ src = <<>>
    /\ reader = DefaultCSVReader(<<>>)
    /\ out = <<>>
    /\ result = NoResult
    /\ hist = <<>>

Init == LoaderInit /\ input = NoInput /\ output = NoOutput /\ CsvIdle

\* The tableName argument of createTable and copyData.
workTable == IF mode = "replace" THEN tempTableName ELSE tableName
Stmt(op, rel) == [op |-> op, rel |-> rel]

\* A return of Replace or Append: (nv, e), with copyData's transactions as tx.
Return(nv, e, tx) ==
    /\ pc' = "done"
    /\ ret' = [n |-> nv, err |-> e, at |-> pc]
    /\ txs' = tx
    /\ sizeIdx' = 1
    /\ i' = 0
    /\ stmts' = <<>>
    /\ cargs' = <<>>
    /\ pos' = 0
    /\ rowid' = 0
    /\ n' = 0
    /\ UNCHANGED splits
\* A return from inside copyData: its deferred function runs first, and a
\* panic in it is what the caller gets.
ReturnDeferred(e, tx, st) ==
    Return(0, IF deferredPanics(st) THEN "panic" ELSE e, deferredTxs(tx, st))
Goto(step) ==
    /\ pc' = step
    /\ UNCHANGED ret

(***************************************************************************)
(* Replace and Append.                                                     *)
(***************************************************************************)
\* main / Import: a load begins.  Replace draws its UUID.
StartLoad(widths, ids) ==
    /\ pc \in {"idle", "done"}
    /\ loads < Len(ids)
    /\ \E md \in {"replace", "append"}, F \in widths, m \in 0..MaxRows :
        /\ mode' = md
        /\ tableSchema' = SchemaOf(F)
        /\ data' = DataOf(F, m)
        /\ tempTableName' = IF md = "replace" THEN uuidNewV4(ids[loads + 1]) ELSE ""
    /\ loads' = loads + 1
    /\ pre' = db
    /\ prev' = [mode |-> mode, err |-> ret.err, parts |-> Len(splits)]
    /\ log' = {}
    /\ pc' = "createSchema"
    /\ ret' = [n |-> 0, err |-> "nil", at |-> "running"]
    /\ sizeIdx' = 1
    /\ attempts' = <<>>
    /\ splits' = <<>>
    /\ txs' = <<>>
    /\ UNCHANGED <<db, i, stmts, cargs, pos, rowid, n, pureVars, csvVars, profVars, dirVars>>

CreateSchema ==
    /\ pc = "createSchema"
    /\ log' = log \cup {Stmt("createSchema", schemaName)}
    /\ \/ /\ db' = ExecCreateSchema(db, schemaName)
          /\ Goto("createTable")
          /\ UNCHANGED <<sizeIdx, splits, copyVars>>
       \/ /\ Return(0, "err", txs)
          /\ UNCHANGED db
    /\ UNCHANGED <<attempts, reqVars, pureVars, csvVars, profVars, dirVars>>

\* nextSizeIdx that goes on to the next size after any error.
nextSizeIdxAnyError(err, idx) ==
    IF idx < Len(partSizes) THEN idx + 1 ELSE 0

\* createTable after createTableSplits failed with err at size index idx:
\* the next size to try, or 0 to return the error.
nextSizeIdx(err, idx) ==
    IF err = colLimitMsg /\ idx < Len(partSizes) THEN idx + 1 ELSE 0
\* The error createTable returns when it gives up after err.
createTableError(err) ==
    IF err = colLimitMsg THEN "failed to partition columns" ELSE err

\* One iteration of createTable's loop over partSizes.
CreateTable ==
    /\ pc = "createTable"
    /\ LET size == partSizes[sizeIdx]
           columnSplits == splitColumns(columnsOf(tableSchema), size)
           columnSchemaSplits == splitColumns(columnSchemasOf(tableSchema), size)
       IN
       /\ log' = log \cup {Stmt(IF tableSchema.Cstore THEN "createCstoreTable"
                                 ELSE "createTable", t)
                            : t \in PlanTables(workTable, Len(columnSchemaSplits))}
       /\ \/ /\ db' = createTableSplits(db, workTable, columnSchemaSplits)
             /\ attempts' = Append(attempts, [size |-> size, err |-> "nil"])
             /\ splits' = columnSplits
             /\ Goto("copyHeader")
             /\ UNCHANGED <<sizeIdx, copyVars>>
          \/ \E err \in {colLimitMsg, "err"} :
             /\ UNCHANGED db
             /\ IF nextSizeIdx(err, sizeIdx) # 0
                THEN /\ sizeIdx' = nextSizeIdx(err, sizeIdx)
                     /\ attempts' = Append(attempts, [size |-> size, err |-> err])
                     /\ UNCHANGED <<pc, ret, splits, copyVars>>
                ELSE /\ Return(0, createTableError(err), txs)
                     /\ attempts' = Append(attempts, [size |-> size, err |-> err])
    /\ UNCHANGED <<reqVars, pureVars, csvVars, profVars, dirVars>>

(***************************************************************************)
(* copyData.                                                               *)
(***************************************************************************)
\* cr.Read() of the header, then the allocation of txs and stmts.  An error
\* here returns before the deferred function is registered.
CopyHeader ==
    /\ pc = "copyHeader"
    /\ \/ /\ txs' = [x \in DOMAIN splits |-> "nil"]
          /\ stmts' = [x \in DOMAIN splits |-> NilStmt]
          /\ i' = 1
          /\ Goto("copyBegin")
          /\ UNCHANGED <<sizeIdx, splits, cargs, pos, rowid, n>>
       \/ Return(0, "err", txs)
    /\ UNCHANGED <<db, log, attempts, reqVars, pureVars, csvVars, profVars, dirVars>>

\* One iteration of "for i, cols := range tableColumns": Begin and Prepare.
CopyBegin ==
    /\ pc = "copyBegin"
    /\ LET target == copyTarget(workTable, splits, i)
           cols   == copyColumns(splits, i)
       IN
       \/ \* c.db.Begin() fails
          /\ ReturnDeferred("err", txs, stmts)
          /\ UNCHANGED log
       \/ \* tx.Prepare fails
          /\ ReturnDeferred("err", [txs EXCEPT ![i] = "open"], stmts)
          /\ log' = log \cup {Stmt("copy", target)}
       \/ /\ CanCopy(db, target, cols)
          /\ txs' = [txs EXCEPT ![i] = "open"]
          /\ stmts' = [stmts EXCEPT ![i] = [nil |-> FALSE, rows |-> <<>>]]
          /\ log' = log \cup {Stmt("copy", target)}
          /\ IF i < Len(splits)
             THEN /\ i' = i + 1
                  /\ UNCHANGED <<pc, ret, cargs>>
             ELSE /\ i' = 0
                  /\ cargs' = [x \in 1..(Len(splits[1]) + 1) |-> Nil]
                  /\ Goto("copyRows")
          /\ UNCHANGED <<sizeIdx, splits, pos, rowid, n>>
    /\ UNCHANGED <<db, attempts, reqVars, pureVars, csvVars, profVars, dirVars>>

\* One iteration of the record loop: cr.Read(), then the row is sent to every
\* partition.
CopyRow ==
    /\ pc = "copyRows"
    /\ \/ \* io.EOF
          /\ pos = Len(data)
          /\ i' = 1
          /\ Goto("copyFlush")
          /\ UNCHANGED <<sizeIdx, splits, txs, stmts, cargs, pos, rowid, n>>
       \/ \* cr.Read() fails, or the Exec of some partition fails
          ReturnDeferred("err", txs, stmts)
       \/ /\ pos < Len(data)
          /\ LET row == data[pos + 1]
                 rid == rowid + 1
             IN /\ rowid' = rid
                /\ stmts' = [x \in DOMAIN stmts |->
                               [stmts[x] EXCEPT !.rows =
                                   Append(@, sentArgs(cargs, row, rid, splits, x))]]
                /\ cargs' = cargsAfterRow(cargs, row, rid, splits)
          /\ pos' = pos + 1
          /\ n' = n + 1
          /\ UNCHANGED <<pc, ret, sizeIdx, splits, i, txs>>
    /\ UNCHANGED <<db, log, attempts, reqVars, pureVars, csvVars, profVars, dirVars>>

\* One iteration of the flush loop: stmt.Exec().
CopyFlush ==
    /\ pc = "copyFlush"
    /\ \/ /\ IF i < Len(splits)
             THEN /\ i' = i + 1
                  /\ UNCHANGED <<pc, ret>>
             ELSE /\ i' = 1
                  /\ Goto("copyCommit")
          /\ UNCHANGED <<sizeIdx, splits, txs, stmts, cargs, pos, rowid, n>>
       \/ ReturnDeferred("err", txs, stmts)
    /\ UNCHANGED <<db, log, attempts, reqVars, pureVars, csvVars, profVars, dirVars>>

\* afterCopy that sends Append down Replace's path.
afterCopyAlwaysReplace(md) == "dropView"

\* The step after copyData returned without error.
afterCopy(md) == IF md = "replace" THEN "dropView" ELSE "analyzeTable"

\* One iteration of the commit loop: tx.Commit().
CopyCommit ==
    /\ pc = "copyCommit"
    /\ \/ /\ db' = ExecCopy(db, copyTarget(workTable, splits, i),
                            copyColumns(splits, i), stmts[i].rows)
          /\ txs' = [txs EXCEPT ![i] = "committed"]
          /\ IF i < Len(splits)
             THEN /\ i' = i + 1
                  /\ UNCHANGED <<pc, ret, stmts, cargs>>
             ELSE \* return n, nil; the deferred function changes nothing
                  /\ i' = 0
                  /\ stmts' = <<>>
                  /\ cargs' = <<>>
                  /\ Goto(afterCopy(mode))
          /\ UNCHANGED <<sizeIdx, splits, pos, rowid, n>>
       \/ /\ ReturnDeferred("err", txs, stmts)
          /\ UNCHANGED db
    /\ UNCHANGED <<log, attempts, reqVars, pureVars, csvVars, profVars, dirVars>>

(***************************************************************************)
(* The rest of Replace, and analyzeTable.                                  *)
(***************************************************************************)
DropView ==
    /\ pc = "dropView"
    /\ log' = log \cup {Stmt("dropView", tableName)}
    /\ \/ /\ db' = ExecDropView(db, tableName)
          /\ Goto("dropTable")
          /\ UNCHANGED <<sizeIdx, splits, copyVars>>
       \/ /\ Return(n, "err", txs)
          /\ UNCHANGED db
    /\ UNCHANGED <<attempts, reqVars, pureVars, csvVars, profVars, dirVars>>

DropTable ==
    /\ pc = "dropTable"
    /\ log' = log \cup {Stmt("dropTable", tableName)}
    /\ \/ /\ db' = ExecDropTable(db, tableName)
          /\ Goto("renameTable")
          /\ UNCHANGED <<sizeIdx, splits, copyVars>>
       \/ /\ Return(n, "err", txs)
          /\ UNCHANGED db
    /\ UNCHANGED <<attempts, reqVars, pureVars, csvVars, profVars, dirVars>>

\* viewWanted with < for <=.
viewWantedStrict(parts, fields) ==
    parts > 1 /\ fields + parts < pgMaxTargetListSize

\* "Create a view if necessary and possible."
viewWanted(parts, fields) ==
    parts > 1 /\ fields + parts <= pgMaxTargetListSize

RenameTable ==
    /\ pc = "renameTable"
    /\ LET r == renameTable(db, tempTableName, tableName, Len(splits)) IN
       /\ log' = log \cup UNION {{Stmt("dropTable", t), Stmt("renameTable", t)}
                                  : t \in PlanTables(tableName, Len(splits))}
       /\ \/ /\ r.ok
             /\ db' = r.db
             /\ Goto(IF viewWanted(Len(splits), Len(tableSchema.Fields))
                     THEN "createView" ELSE "analyzeTable")
             /\ UNCHANGED <<sizeIdx, splits, copyVars>>
          \/ /\ Return(n, "err", txs)
             /\ UNCHANGED db
    /\ UNCHANGED <<attempts, reqVars, pureVars, csvVars, profVars, dirVars>>

CreateView ==
    /\ pc = "createView"
    /\ LET def == createView(tableName, splits) IN
       /\ log' = log \cup {Stmt("createView", tableName)}
       /\ \/ /\ CanCreateView(db, tableName, def)
             /\ db' = ExecCreateView(db, tableName, def)
             /\ Goto("analyzeTable")
             /\ UNCHANGED <<sizeIdx, splits, copyVars>>
          \/ /\ Return(n, "err", txs)
             /\ UNCHANGED db
    /\ UNCHANGED <<attempts, reqVars, pureVars, csvVars, profVars, dirVars>>

\* analyzeTable changes no table; its result is what the load returns.
AnalyzeTable ==
    /\ pc = "analyzeTable"
    /\ log' = log \cup {Stmt("analyzeTable", t) : t \in PlanTables(tableName, Len(splits))}
    /\ \/ /\ PlanTables(tableName, Len(splits)) \subseteq DOMAIN db.tables
          /\ Return(n, "nil", txs)
       \/ Return(n, "err", txs)
    /\ UNCHANGED <<db, attempts, reqVars, pureVars, csvVars, profVars, dirVars>>

Step ==
    \/ CreateSchema
    \/ CreateTable
    \/ CopyHeader
    \/ CopyBegin
    \/ CopyRow
    \/ CopyFlush
    \/ CopyCommit
    \/ DropView
    \/ DropTable
    \/ RenameTable
    \/ CreateView
    \/ AnalyzeTable

\* Two loads in a row, of files of 1 or 250 columns.
Next == StartLoad(Widths, LoadIds) \/ Step
Spec == Init /\ [][Next]_vars

\* One load of a file around the target-list limit.
NextWide == StartLoad(WideWidths, <<"first">>) \/ Step
SpecWide == Init /\ [][NextWide]_vars

(***************************************************************************)
(* splitColumns on its own.                                                *)
(***************************************************************************)
RECURSIVE SeqsUpTo(_, _)
SeqsUpTo(S, len) ==
    IF len = 0 THEN {<<>>}
    ELSE LET shorter == SeqsUpTo(S, len - 1) IN
         shorter \cup {Append(q, e) : q \in {r \in shorter : Len(r) = len - 1}, e \in S}

InitSplit ==
    /\ LoaderInit
    /\ input \in [columns : SeqsUpTo({"a", "b"}, MaxCols), n : 1..MaxSize]
    /\ output = NoOutput
    /\ CsvIdle

CallSplit ==
    /\ ~output.called
    /\ output' = [called |-> TRUE, colparts |-> splitColumns(input.columns, input.n)]
    /\ UNCHANGED <<dirVars, db, pc, mode, tableSchema, data, tempTableName, loads, sizeIdx,
                   attempts, splits, i, txs, stmts, cargs, pos, rowid, n, ret, pre,
                   prev, log, input, csvVars, profVars>>

SpecSplit == InitSplit /\ [][CallSplit]_vars

(***************************************************************************)
(* GeneralizeType on its own, on every two value types.                    *)
(***************************************************************************)
InitGeneralize ==
    /\ LoaderInit
    /\ input \in [t1 : ValueTypes, t2 : ValueTypes]
    /\ output = NoOutput
    /\ CsvIdle

CallGeneralize ==
    /\ ~output.called
    /\ output' = [called |-> TRUE, type |-> GeneralizeType(input.t1, input.t2)]
    /\ UNCHANGED <<dirVars, db, pc, mode, tableSchema, data, tempTableName, loads, sizeIdx,
                   attempts, splits, i, txs, stmts, cargs, pos, rowid, n, ret, pre,
                   prev, log, input, csvVars, profVars>>

SpecGeneralize == InitGeneralize /\ [][CallGeneralize]_vars

(***************************************************************************)
(* The CSV reader on its own: a caller that scans a reader field by field  *)
(* (for cr.Scan() { ... }), and one that reads it line by line with        *)
(* ScanLine until io.EOF.                                                  *)
(***************************************************************************)
CsvBytes == {"a", Quote, Comma, NewLine}

\* The rows of TestCSVReaderBadInput and of TestCSVScanLineBadInput, joined by
\* new lines; the first two rows of the latter are the input of scenario S3.
BadRowJoe == <<"J","o","e",Comma,Quote,"M",Quote,Comma," ",Quote,"G","A",Quote>>
BadRowSue == <<Quote,"S","u","e",Quote,Comma," ",Quote,"F",Quote,Comma," ",
               Quote,"N","J",Quote>>
BadRowBob == <<Quote,"B","o","b",Quote,Comma,"M",Comma,"N","Y",Quote>>
ReaderBadHeader == <<Quote,"n","a","m","e",Quote,Comma,Quote,"g","e","n","d","e","r",
                     Quote,Comma," ","s","t","a","t","e">>
ScanLineBadHeader == <<Quote,"n","a","m","e",Quote,Comma," ",Quote,"g","e","n","d","e",
                       "r",Quote,Comma,"s","t","a","t","e">>
ReaderBadInput ==
    ReaderBadHeader \o <<NewLine>> \o BadRowJoe \o <<NewLine>> \o BadRowSue
        \o <<NewLine>> \o BadRowBob
ScanLineBadInput ==
    ScanLineBadHeader \o <<NewLine>> \o BadRowJoe \o <<NewLine>> \o BadRowSue
        \o <<NewLine>> \o BadRowBob
S3Input == ScanLineBadHeader \o <<NewLine>> \o BadRowJoe
\* TestCSVExtraColumns.
ExtraColumnsInput == <<"o","n","e",Comma,"t","w","o",Comma,"t","h","r","e","e",Comma,
                       "f","o","u","r">>
TestInputs == {ReaderBadInput, ScanLineBadInput, S3Input, ExtraColumnsInput}

CsvTexts == SeqsUpTo(CsvBytes, MaxText) \cup TestInputs
\* The lengths of the slice a caller hands to ScanLine.
OutLens == {0, 1, 2, 3}

NotLoading == LoaderInit /\ input = NoInput /\ output = NoOutput

InitScan ==
    /\ NotLoading
    /\ src \in CsvTexts
    /\ \E coe \in BOOLEAN :
           reader = [DefaultCSVReader(src) EXCEPT !.ContinueOnError = coe]
    /\ out = <<>>
    /\ result = NoResult
    /\ hist = <<>>
    /\ ProfIdle

\* One cr.Scan() of the loop.  hist keeps what the accessors return after it,
\* with the line the scanner is at (read) and the offset in the line at which
\* the field began (from).
CallScan ==
    /\ result.call = "none" \/ result.ok
    /\ \E t \in {Scan(reader)} :
           /\ reader' = t.s
           /\ result' = [call |-> "Scan", ok |-> t.ok, err |-> Err(t.s)]
           /\ hist' = Append(hist,
                  [ok |-> t.ok, text |-> Text(t.s), line |-> Line(t.s),
                   lineno |-> LineNumber(t.s), column |-> ColumnNumber(t.s),
                   eor |-> EndOfRecord(t.s), err |-> Err(t.s),
                   read |-> t.s.sc.read,
                   from |-> Len(t.s.line)
                              - Len(IF reader.eor THEN t.s.line ELSE reader.data)])
    /\ UNCHANGED <<dirVars, db, pc, mode, tableSchema, data, tempTableName, loads, sizeIdx,
                   attempts, splits, i, txs, stmts, cargs, pos, rowid, n, ret, pre,
                   prev, log, pureVars, src, out, profVars>>

SpecScan == InitScan /\ [][CallScan]_vars

InitScanLine ==
    /\ NotLoading
    /\ src \in CsvTexts
    /\ reader = DefaultCSVReader(src)
    /\ \E max \in OutLens : out = [x \in 1..max |-> <<>>]
    /\ result = NoResult
    /\ hist = <<>>
    /\ ProfIdle

\* One cr.ScanLine(out) of the loop.  hist keeps the error returned and the
\* slice before and after, with the reader before and after the call.
CallScanLine ==
    /\ result.call = "none" \/ result.err # EOF
    /\ \E t \in {ScanLine(reader, out)} :
           /\ reader' = t.s
           /\ out' = t.r
           /\ result' = [call |-> "ScanLine", ok |-> t.err = NoErr, err |-> t.err]
           /\ hist' = Append(hist, [err |-> t.err, r |-> t.r, r0 |-> out,
                                    s |-> t.s, s0 |-> reader])
    /\ UNCHANGED <<dirVars, db, pc, mode, tableSchema, data, tempTableName, loads, sizeIdx,
                   attempts, splits, i, txs, stmts, cargs, pos, rowid, n, ret, pre,
                   prev, log, pureVars, src, profVars>>

SpecScanLine == InitScanLine /\ [][CallScanLine]_vars

(***************************************************************************)
(* The CSV reader over the serialization of a table: every field quoted,   *)
(* inner quotes doubled, fields joined by commas, one row per line.        *)
(***************************************************************************)
CellBytes == {"a", Quote, Comma}
\* Rows and columns of the tables.
TableShapes == {<<1, 1>>, <<1, 2>>, <<2, 1>>, <<2, 2>>}

\* The tuples of k cells holding at most b bytes in all.
RECURSIVE CellTuples(_, _)
CellTuples(k, b) ==
    IF k = 0 THEN {<<>>}
    ELSE UNION {{<<c>> \o t : t \in CellTuples(k - 1, b - Len(c))} :
                c \in SeqsUpTo(CellBytes, b)}
TableOf(shape, cells) ==
    [r \in 1..shape[1] |-> [c \in 1..shape[2] |-> cells[(r - 1) * shape[2] + c]]]
Tables ==
    UNION {{TableOf(shape, cells) : cells \in CellTuples(shape[1] * shape[2], MaxCellBytes)} :
           shape \in TableShapes}

RECURSIVE doubleQuotes(_)
doubleQuotes(c) ==
    IF c = <<>> THEN <<>>
    ELSE (IF Head(c) = Quote THEN <<Quote, Quote>> ELSE <<Head(c)>>)
             \o doubleQuotes(Tail(c))
quoteCell(c) == <<Quote>> \o doubleQuotes(c) \o <<Quote>>
RECURSIVE quoteRow(_)
quoteRow(r) ==
    IF Len(r) = 1 THEN quoteCell(r[1]) \o <<NewLine>>
    ELSE quoteCell(Head(r)) \o <<Comma>> \o quoteRow(Tail(r))
RECURSIVE quoteTable(_)
quoteTable(t) == IF t = <<>> THEN <<>> ELSE quoteRow(Head(t)) \o quoteTable(Tail(t))

InitRoundTrip ==
    /\ LoaderInit
    /\ input \in [table : Tables]
    /\ output = NoOutput
    /\ src = quoteTable(input.table)
    /\ reader = DefaultCSVReader(src)
    /\ out = <<>>
    /\ result = NoResult
    /\ hist = <<>>
    /\ ProfIdle

SpecRoundTrip == InitRoundTrip /\ [][CallScan]_vars

(***************************************************************************)
(* Profiler.Profile on its own: the profiler of a CSV input, from its      *)
(* first record to its return, a record at a step.                         *)
(***************************************************************************)
ProfileBytes == {"a", "0", "1", Quote, Comma, NewLine}
\* TestProfiler.
S1Input ==
    <<"n", "a", "m", "e", Comma, "c", "o", "l", "o", "r", Comma, "d", "o",
    "b", NewLine, "J", "o", "h", "n", Comma, "B", "l", "u", "e", Comma, "0",
    "3", "/", "1", "1", "/", "2", "0", "1", "3", NewLine, "J", "a", "n", "e",
    Comma, "R", "e", "d", Comma, "2", "0", "0", "8", "-", "2", "-", "2", "4",
    NewLine, "J", "o", "e", Comma, Comma, "2", "0", "1", "0", "-", "0", "2",
    "-", "1", "1", NewLine>>
\* A column of identifiers with leading zeros and a column of integers.
S2Input ==
    <<"i", "d", Comma, "s", "c", "o", "r", "e", NewLine, "0", "0", "7", Comma,
    "1", "0", NewLine, "0", "0", "8", Comma, "2", "0", NewLine>>
\* The values of TestProfilerRecord, a column each.
RecordInputs ==
    {<<"v", NewLine, "b", "a", "r", NewLine>>,
     <<"v", NewLine, "1", "0", NewLine>>,
     <<"v", NewLine, "1", ".", "2", "0", NewLine>>,
     <<"v", NewLine, "t", "r", "u", "e", NewLine>>,
     <<"v", NewLine, "2", "0", "1", "4", "-", "0", "2", "-", "0", "1", NewLine>>,
     <<"v", NewLine, "0", "2", "/", "0", "1", "/", "2", "0", "1", "4", NewLine>>,
     <<"v", NewLine, "0", "2", "/", "0", "1", "/", "1", "4", NewLine>>,
     <<"v", NewLine, "2", "/", "1", "/", "1", "4", NewLine>>,
     <<"v", NewLine, "2", "0", "1", "4", "-", "0", "2", "-", "0", "1", " ", "1", "0", ":", "0", "0", ":", "0", "0", NewLine>>}
\* A column of an integer, a float and a boolean; a second row with a quote
\* in an unquoted field; a row of three fields under a header of two.
MixedInput ==
    <<"v", NewLine, "1", NewLine, "1", ".", "5", NewLine, "t", "r", "u", "e",
    NewLine>>
BadRowInput ==
    <<"a", Comma, "b", NewLine, "x", Quote, "y", Comma, "z", NewLine, "c",
    Comma, "d", NewLine>>
LongRowInput ==
    <<"a", Comma, "b", NewLine, "1", Comma, "2", Comma, "3", NewLine, "4",
    Comma, "5", NewLine>>
\* A row of one field under a header of two, after a row of two.
ShortRowInput ==
    <<"a", Comma, "b", NewLine, "1", Comma, "2", NewLine, "3", NewLine>>
ProfileInputs ==
    {S1Input, S2Input, MixedInput, BadRowInput, LongRowInput, ShortRowInput}
        \cup RecordInputs
ProfileTexts == SeqsUpTo(ProfileBytes, MaxProfileText) \cup ProfileInputs
\* Profile's panic when it reads the field of a nil *Field.
nilPointerPanic == "panic: nil pointer dereference"

\* A Profiler over the input: NewProfiler sets Header, which a caller may
\* clear.
InitProfile ==
    /\ LoaderInit
    /\ input \in [Header : BOOLEAN, Delimiter : {Comma}]
    /\ output = NoOutput
    /\ src \in ProfileTexts
    /\ reader = DefaultCSVReader(<<>>)
    /\ out = <<>>
    /\ result = NoResult
    /\ hist = <<>>
    /\ prof = NewProfiler(NilConfig)
    /\ header = <<>>
    /\ pf = Nil
    /\ phase = "start"

\* Profile returns (nil, err).
ProfileFailed(err) ==
    /\ phase' = "returned"
    /\ pf' = Nil
    /\ result' = [call |-> "Profile", ok |-> FALSE, err |-> err]
\* Profile up to its loop: the first record, the header and, without a header
\* line, the profile of the first record.
ProfileHeader ==
    /\ phase = "start"
    /\ \E t \in {Read(NewCSVReader(src, input.Delimiter))} :
           /\ reader' = t.s
           /\ IF t.err # NoErr
              THEN /\ ProfileFailed(t.err)
                   /\ UNCHANGED <<prof, header, out>>
              ELSE \E h \in {headerOf(t.r, input.Header)} :
                       /\ header' = h
                       /\ out' = t.r
                       /\ prof' = IF input.Header THEN NewProfiler(NilConfig)
                                  ELSE Incr(profileRecord(NewProfiler(NilConfig), h, t.r, 0))
                       /\ phase' = "records"
                       /\ UNCHANGED <<pf, result>>
    /\ UNCHANGED <<dirVars, db, pc, mode, tableSchema, data, tempTableName, loads, sizeIdx,
                   attempts, splits, i, txs, stmts, cargs, pos, rowid, n, ret, pre,
                   prev, log, pureVars, src, hist>>

\* One turn of Profile's loop over the remaining records: the next line
\* profiled, or the return on an error, or at io.EOF the profile with the
\* index of each field set.
ProfileRecord ==
    /\ phase = "records"
    /\ \E t \in {ScanLine(reader, out)} :
           /\ reader' = t.s
           /\ out' = t.r
           /\ IF t.err = EOF
              THEN /\ IF nilField(prof, header)
                      THEN ProfileFailed(nilPointerPanic)
                      ELSE \E r \in Profile(prof) :
                               /\ phase' = "returned"
                               /\ pf' = withIndexes(r, header)
                               /\ result' = [call |-> "Profile", ok |-> TRUE, err |-> NoErr]
                   /\ UNCHANGED prof
              ELSE IF t.err # NoErr
              THEN /\ ProfileFailed(t.err)
                   /\ UNCHANGED prof
              ELSE /\ prof' = Incr(profileRecord(prof, header, t.r, 0))
                   /\ UNCHANGED <<pf, result, phase>>
    /\ UNCHANGED <<dirVars, db, pc, mode, tableSchema, data, tempTableName, loads, sizeIdx,
                   attempts, splits, i, txs, stmts, cargs, pos, rowid, n, ret, pre,
                   prev, log, pureVars, src, hist, header>>

NextProfile == ProfileHeader \/ ProfileRecord
SpecProfile == InitProfile /\ [][NextProfile]_vars

(***************************************************************************)
(* Import's profile and schema over records: the header of the first       *)
(* record, Profile's loop a record at a turn, its return at io.EOF, and    *)
(* NewSchema on the profile it returned.                                   *)
(***************************************************************************)
MaxProfiled == 3
\* First records: a column, two columns, and two columns whose names are
\* the same in lower case.
HeaderRecords == {<<<<"v">>>>, <<<<"a">>, <<"b">>>>, <<<<"A">>, <<"a">>>>}
\* The fields of the records: an empty string, integers, one with leading
\* zeros, and under the single column the values of TestProfilerRecord.
RowValues == {<<>>, <<"1">>, <<"0", "0", "7">>}
ColumnValues ==
    RowValues \cup
    {<<"0">>, <<"2">>, <<"1", ".", "2", "0">>, <<"t", "r", "u", "e">>, <<"b", "a", "r">>,
     <<"2", "0", "1", "4", "-", "0", "2", "-", "0", "1">>,
     <<"2", "0", "1", "4", "-", "0", "2", "-", "0", "1", " ", "1", "0", ":", "0", "0", ":", "0", "0">>}
RowsFor(names) ==
    IF Len(names) = 1 THEN {<<v>> : v \in ColumnValues}
    ELSE {<<v, w>> : v \in RowValues, w \in RowValues}

sqlTypeMap ==
    (UnknownType :> "integer") @@ (BoolType :> "boolean") @@ (StringType :> "text") @@
    (IntType :> "integer") @@ (FloatType :> "real") @@ (DateType :> "date") @@
    (DateTimeType :> "timestamp") @@ (NullType :> "text")
indexOutOfRange == "panic: index out of range"
\* The field NewSchema makes of a field of the profile.
schemaField(k, f) ==
    [Name |-> k, Type |-> IF f.Type \in DOMAIN sqlTypeMap THEN sqlTypeMap[f.Type] ELSE "",
     Unique |-> f.Unique, Nullable |-> f.Nullable \/ f.Missing]
\* NewSchema: a slice of len(p.Fields) pointers, each field of the profile
\* stored at its Index: a panic for an Index past the slice; a nil pointer
\* left where no field has the index; for fields of one Index the one the
\* map yields last.  The set of its outcomes.
NewSchema(p) ==
    IF \E k \in DOMAIN p.Fields : p.Fields[k].Index >= Cardinality(DOMAIN p.Fields)
    THEN {[panic |-> indexOutOfRange, Cstore |-> FALSE, Fields |-> <<>>]}
    ELSE {[panic |-> NoErr, Cstore |-> FALSE,
           Fields |-> [x \in DOMAIN at |->
                          IF at[x] = <<>> THEN [nil |-> TRUE]
                          ELSE [nil |-> FALSE] @@ schemaField(at[x][1], p.Fields[at[x][1]])]] :
            at \in {m \in [1..Cardinality(DOMAIN p.Fields) ->
                              {<<>>} \cup {<<k>> : k \in DOMAIN p.Fields}] :
                       \A x \in DOMAIN m :
                           IF m[x] = <<>>
                           THEN \A k \in DOMAIN p.Fields : p.Fields[k].Index # x - 1
                           ELSE p.Fields[m[x][1]].Index = x - 1}}

InitRows ==
    /\ LoaderInit
    /\ input = NoInput
    /\ output = NoOutput
    /\ src = <<>>
    /\ reader = DefaultCSVReader(<<>>)
    /\ out \in HeaderRecords
    /\ result = NoResult
    /\ hist = <<>>
    /\ prof = NewProfiler(NilConfig)
    /\ header = headerOf(out, TRUE)
    /\ pf = Nil
    /\ phase = "records"

\* A turn of Profile's loop on a record ScanLine returned without an error.
ProfileRow ==
    /\ phase = "records"
    /\ Len(hist) < MaxProfiled
    /\ \E record \in RowsFor(header) :
           /\ prof' = Incr(profileRecord(prof, header, record, 0))
           /\ out' = record
           /\ hist' = Append(hist, record)
    /\ UNCHANGED <<dirVars, db, pc, mode, tableSchema, data, tempTableName, loads, sizeIdx,
                   attempts, splits, i, txs, stmts, cargs, pos, rowid, n, ret, pre,
                   prev, log, pureVars, src, reader, result, header, pf, phase>>
\* The turn on which ScanLine returns io.EOF: Profile returns.
ProfileEOF ==
    /\ phase = "records"
    /\ IF nilField(prof, header)
       THEN ProfileFailed(nilPointerPanic)
       ELSE \E r \in Profile(prof) :
                /\ phase' = "returned"
                /\ pf' = withIndexes(r, header)
                /\ result' = [call |-> "Profile", ok |-> TRUE, err |-> NoErr]
    /\ UNCHANGED <<dirVars, db, pc, mode, tableSchema, data, tempTableName, loads, sizeIdx,
                   attempts, splits, i, txs, stmts, cargs, pos, rowid, n, ret, pre,
                   prev, log, pureVars, src, reader, out, hist, prof, header>>
\* Import after a profile without an error: schema := NewSchema(prof).
ImportSchema ==
    /\ phase = "returned"
    /\ result.ok
    /\ \E s \in NewSchema(pf) : output' = s
    /\ phase' = "schema"
    /\ UNCHANGED <<dirVars, db, pc, mode, tableSchema, data, tempTableName, loads, sizeIdx,
                   attempts, splits, i, txs, stmts, cargs, pos, rowid, n, ret, pre,
                   prev, log, input, src, reader, out, result, hist, prof, header, pf>>

NextRows == ProfileRow \/ ProfileEOF \/ ImportSchema
SpecRows == InitRows /\ [][NextRows]_vars

(***************************************************************************)
(* The profiler on its own: a caller that records values and types under   *)
(* the names of fields, a call at a step.                                  *)
(***************************************************************************)
MaxEvents == 3
EventNames == {<<"a">>, <<"A">>, <<"b">>}
EventValues == {<<>>, <<"1">>, <<"2">>}
EventTypes == {NullType, IntType}

InitEvents ==
    /\ LoaderInit
    /\ input = NoInput
    /\ output = NoOutput
    /\ src = <<>>
    /\ reader = DefaultCSVReader(<<>>)
    /\ out = <<>>
    /\ result = NoResult
    /\ hist = <<>>
    /\ prof = NewProfiler(NilConfig)
    /\ header = <<>>
    /\ pf = Nil
    /\ phase = "events"

\* p.Record(name, v)
CallRecord ==
    /\ phase = "events"
    /\ Len(hist) < MaxEvents
    /\ \E name \in EventNames, v \in EventValues :
           /\ prof' = Record(prof, name, v)
           /\ hist' = Append(hist, [call |-> "Record", name |-> name, v |-> v, t |-> ""])
    /\ UNCHANGED <<dirVars, db, pc, mode, tableSchema, data, tempTableName, loads, sizeIdx,
                   attempts, splits, i, txs, stmts, cargs, pos, rowid, n, ret, pre,
                   prev, log, pureVars, src, reader, out, result, header, pf, phase>>
\* p.RecordType(name, nil, t)
CallRecordType ==
    /\ phase = "events"
    /\ Len(hist) < MaxEvents
    /\ \E name \in EventNames, t \in EventTypes :
           /\ prof' = RecordType(prof, name, Nil, t)
           /\ hist' = Append(hist, [call |-> "RecordType", name |-> name, v |-> <<>>, t |-> t])
    /\ UNCHANGED <<dirVars, db, pc, mode, tableSchema, data, tempTableName, loads, sizeIdx,
                   attempts, splits, i, txs, stmts, cargs, pos, rowid, n, ret, pre,
                   prev, log, pureVars, src, reader, out, result, header, pf, phase>>

NextEvents == CallRecord \/ CallRecordType
SpecEvents == InitEvents /\ [][NextEvents]_vars

(***************************************************************************)
(* reader: the UniversalReader over a source, read to io.EOF by a caller   *)
(* with one buffer, the reader under it giving a part of the source, short *)
(* of the buffer or not, on each Read.  The bytes of the byte order mark   *)
(* are written by their values in base 16.                                 *)
(***************************************************************************)
MaxPieces == 3
MaxBuf == 4
bom == <<"EF", "BB", "BF">>
\* UniversalReader.Read(buf) when r.r.Read(buf) put the bytes of chunk at the
\* head of buf: the buffer and the count it returns.
hasBom(buf) == Len(buf) >= Len(bom) /\ SubSeq(buf, 1, Len(bom)) = bom
\* copy(buf, buf[len(bom):])
withoutBom(buf) ==
    SubSeq(buf, Len(bom) + 1, Len(buf)) \o SubSeq(buf, Len(buf) - Len(bom) + 1, Len(buf))
newLines(buf) ==
    [x \in DOMAIN buf |-> IF buf[x] = CarriageReturn THEN NewLine ELSE buf[x]]
readInto(buf, filled, count) ==
    IF hasBom(filled)
    THEN [buf |-> newLines(withoutBom(filled)), n |-> count - Len(bom)]
    ELSE [buf |-> newLines(filled), n |-> count]
UniversalReaderRead(buf, chunk) ==
    readInto(buf, chunk \o SubSeq(buf, Len(chunk) + 1, Len(buf)), Len(chunk))

\* Sources: up to MaxPieces of a byte order mark, a letter and a carriage
\* return; the source of TestUniversalReader, read with a buffer of 20.
RECURSIVE Concat(_)
Concat(parts) == IF parts = <<>> THEN <<>> ELSE Head(parts) \o Concat(Tail(parts))
ReaderSources ==
    {Concat(q) : q \in SeqsUpTo({bom, <<"a">>, <<CarriageReturn>>}, MaxPieces)}
TestReaderSource ==
    bom \o <<"h", "e", "l", "l", "o", " ", "w", "o", "r", "l", "d", "!", CarriageReturn>>
sliceBounds == "panic: slice bounds out of range"

InitReader ==
    /\ LoaderInit
    /\ input = NoInput
    /\ output = NoOutput
    /\ \E size \in 1..MaxBuf \cup {20} :
           /\ src \in IF size = 20 THEN {TestReaderSource} ELSE ReaderSources
           /\ reader = [pos |-> 0, buf |-> [x \in 1..size |-> NUL]]
    /\ out = <<>>
    /\ result = NoResult
    /\ hist = <<>>
    /\ prof = NewProfiler(NilConfig)
    /\ header = <<>>
    /\ pf = Nil
    /\ phase = "reading"

\* n, err := ur.Read(buf) and the caller's use of buf[:n]: the reader under
\* it returns some of the bytes left, or 0 and io.EOF when none is left.
CallRead ==
    /\ phase = "reading"
    /\ \E k \in 0..Len(reader.buf) :
           /\ reader.pos + k <= Len(src)
           /\ k = 0 <=> reader.pos = Len(src)
           /\ \E t \in {UniversalReaderRead(reader.buf,
                                             SubSeq(src, reader.pos + 1, reader.pos + k))} :
                  /\ reader' = [pos |-> reader.pos + k, buf |-> t.buf]
                  /\ result' = [call |-> "Read", ok |-> t.n >= 0, n |-> t.n,
                                 err |-> IF k = 0 THEN EOF ELSE NoErr]
                  /\ out' = IF t.n >= 0 THEN out \o SubSeq(t.buf, 1, t.n) ELSE out
                  /\ phase' = IF t.n < 0 THEN sliceBounds
                               ELSE IF k = 0 THEN "eof" ELSE "reading"
    /\ UNCHANGED <<dirVars, db, pc, mode, tableSchema, data, tempTableName, loads, sizeIdx,
                   attempts, splits, i, txs, stmts, cargs, pos, rowid, n, ret, pre,
                   prev, log, pureVars, src, hist, prof, header, pf>>

SpecReader == InitReader /\ [][CallRead]_vars

(***************************************************************************)
(* reader: loadDir.  filepath.Walk visits the entries of the tree in turn  *)
(* and starts a goroutine for each file; a goroutine imports its file,     *)
(* then runs its deferred calls: the function that recovers from a panic,  *)
(* then wg.Done; loadDir waits for the WaitGroup.                          *)
(***************************************************************************)
MaxEntries == 3
\* An entry of the tree: a directory, a file, or one whose os.FileInfo is nil
\* in the call of the function (Lstat failed).
EntryKinds == {"dir", "file", "nil"}
\* How Import ends: with no error, with an error, or in a panic.
ImportOutcomes == {"nil", "error", "panic"}
NoWorker == [at |-> "none", import |-> "none"]
nilInfoPanic == "panic: nil pointer dereference"
\* wg.Wait() returns when the counter is zero.
\* [mutant] wg.Wait() returns at once.
waitNot(counter) == TRUE
waitOver(counter) == counter = 0
\* The lines a goroutine logs.
LogLine(x, line) == [file |-> x, line |-> line]
importLines(x, outcome) ==
    {LogLine(x, "loading file")} \cup
    IF outcome = "error" THEN {LogLine(x, "error importing file")} ELSE {}
recoverLines(x) == {LogLine(x, "error loading file"), LogLine(x, "panic value")}

InitDir ==
    /\ LoaderIdle
    /\ input \in SeqsUpTo(EntryKinds, MaxEntries)
    /\ output = NoOutput
    /\ src = <<>>
    /\ reader = DefaultCSVReader(<<>>)
    /\ out = <<>>
    /\ result = NoResult
    /\ hist = {}
    /\ prof = NewProfiler(NilConfig)
    /\ header = <<>>
    /\ pf = Nil
    /\ phase = "walking"
    /\ walk = 0
    /\ workers = [x \in DOMAIN input |-> NoWorker]
    /\ wg = 0

\* The function Walk calls on the next entry: nothing for a directory; for a
\* file wg.Add(1) and the go statement; a panic of the program on info.IsDir()
\* when info is nil.
WalkEntry ==
    /\ phase = "walking"
    /\ walk < Len(input)
    /\ walk' = walk + 1
    /\ IF input[walk + 1] = "nil"
       THEN /\ phase' = nilInfoPanic
            /\ UNCHANGED <<workers, wg>>
       ELSE IF input[walk + 1] = "dir"
       THEN UNCHANGED <<phase, workers, wg>>
       ELSE /\ wg' = wg + 1
            /\ workers' = [workers EXCEPT ![walk + 1].at = "started"]
            /\ UNCHANGED phase
    /\ UNCHANGED <<db, pc, mode, tableSchema, data, tempTableName, loads, sizeIdx,
                   attempts, splits, i, txs, stmts, cargs, pos, rowid, n, ret, pre,
                   prev, log, pureVars, csvVars, prof, header, pf>>
\* Walk has returned: wg.Wait() and the return of loadDir.
WaitReturn ==
    /\ phase = "walking"
    /\ walk = Len(input)
    /\ waitOver(wg)
    /\ phase' = "returned"
    /\ UNCHANGED <<db, pc, mode, tableSchema, data, tempTableName, loads, sizeIdx,
                   attempts, splits, i, txs, stmts, cargs, pos, rowid, n, ret, pre,
                   prev, log, pureVars, csvVars, prof, header, pf, dirVars>>
\* The body of a goroutine: the line it logs, Import, and the line for the
\* error Import returned.
WorkerImport(x) ==
    /\ workers[x].at = "started"
    /\ \E outcome \in ImportOutcomes :
           /\ workers' = [workers EXCEPT ![x] = [at |-> "deferred", import |-> outcome]]
           /\ hist' = hist \cup importLines(x, outcome)
    /\ UNCHANGED <<db, pc, mode, tableSchema, data, tempTableName, loads, sizeIdx,
                   attempts, splits, i, txs, stmts, cargs, pos, rowid, n, ret, pre,
                   prev, log, pureVars, src, reader, out, result, profVars, walk, wg>>
\* Its deferred function: recover(), and the two lines when it panicked.
WorkerRecover(x) ==
    /\ workers[x].at = "deferred"
    /\ workers' = [workers EXCEPT ![x].at = "recovered"]
    /\ hist' = IF workers[x].import = "panic" THEN hist \cup recoverLines(x) ELSE hist
    /\ UNCHANGED <<db, pc, mode, tableSchema, data, tempTableName, loads, sizeIdx,
                   attempts, splits, i, txs, stmts, cargs, pos, rowid, n, ret, pre,
                   prev, log, pureVars, src, reader, out, result, profVars, walk, wg>>
\* Its deferred wg.Done().
WorkerDone(x) ==
    /\ workers[x].at = "recovered"
    /\ workers' = [workers EXCEPT ![x].at = "finished"]
    /\ wg' = wg - 1
    /\ UNCHANGED <<db, pc, mode, tableSchema, data, tempTableName, loads, sizeIdx,
                   attempts, splits, i, txs, stmts, cargs, pos, rowid, n, ret, pre,
                   prev, log, pureVars, csvVars, profVars, walk>>
\* A step of a goroutine, while the program runs.
Worker(x) ==
    /\ phase \in {"walking", "returned"}
    /\ x \in DOMAIN workers
    /\ (WorkerImport(x) \/ WorkerRecover(x) \/ WorkerDone(x))

NextDir == WalkEntry \/ WaitReturn \/ \E x \in 1..MaxEntries : Worker(x)
\* The Go scheduler runs every goroutine that can run.
FairDir ==
    /\ WF_vars(WalkEntry)
    /\ WF_vars(WaitReturn)
    /\ \A x \in 1..MaxEntries : WF_vars(Worker(x))
SpecDir == InitDir /\ [][NextDir]_vars /\ FairDir

(***************************************************************************)
(* Properties.                                                             *)
(***************************************************************************)
Parts == Len(splits)
NFields == Len(tableSchema.Fields)
\* The names a load of base name b may give its tables: b, b_0, b_1, ..., up to
\* the most partitions the smallest size makes of the fields.
NamesUnder(b) ==
    {b} \cup {PartName(b, x) : x \in 0..(NFields \div partSizes[Len(partSizes)])}
\* The tables and the view a database holds under the target name.
TargetRelations(d) ==
    [tables |-> [t \in DOMAIN d.tables \cap NamesUnder(tableName) |-> d.tables[t]],
     views  |-> [v \in DOMAIN d.views \cap NamesUnder(tableName) |-> d.views[v]]]
CopySteps == {"copyHeader", "copyBegin", "copyRows", "copyFlush", "copyCommit"}
Failed == pc = "done" /\ ret.err # "nil"
RowsOf(d, t) == IF t \in DOMAIN d.tables THEN d.tables[t].rows ELSE <<>>

\* C1: a Replace that returns an error, at whatever step, leaves what was at
\* the target name before the call present and unchanged.
C1_FailedReplaceKeepsTarget ==
    (Failed /\ mode = "replace" /\ ret.err # "panic"
       /\ DOMAIN TargetRelations(pre).tables # {})
    => TargetRelations(db) = TargetRelations(pre)

\* C2: during a Replace, until the rename transaction commits, the committed
\* database still shows what was at the target name before the call.
C2_OldDataVisibleUntilRename ==
    (mode = "replace"
       /\ pc \in {"createSchema", "createTable", "dropView", "dropTable", "renameTable"}
                    \cup CopySteps)
    => TargetRelations(db) = TargetRelations(pre)

\* C3: after a Replace that returned an error, the database holds no table
\* under the temporary name (the name itself or one of its _<i> partitions).
C3_NoTempTableAfterFailure ==
    (Failed /\ mode = "replace")
    => DOMAIN db.tables \cap NamesUnder(tempTableName) = {}

\* C4: an Append over several partitions that fails inside copyData leaves
\* every partition table with the rows it had before the load.
C4_FailedAppendAddsNoRows ==
    (Failed /\ mode = "append" /\ Parts > 1 /\ ret.at \in CopySteps)
    => \A t \in PlanTables(tableName, Parts) : RowsOf(db, t) = RowsOf(pre, t)

\* C5: when a step of copyData fails, copyData returns the error (it does not
\* panic) and none of the transactions it opened is left open.
C5_CopyFailureRollsBackAll ==
    (Failed /\ ret.at \in CopySteps)
    => /\ ret.err # "panic"
       /\ \A x \in DOMAIN txs : txs[x] # "open"

\* C6: in a copy over several partitions, after j data rows partition x has
\* been sent, for each of the rows 1..j in order, the row's number followed by
\* the cells of the x-th group of columns (groups are consecutive runs of the
\* header, all but the last of the same size), with NULL for an empty cell;
\* and a load that succeeds returns the number of data rows.
ExpectedArgs(j, x) ==
    LET size == Len(splits[1]) IN
    <<j>> \o [y \in DOMAIN splits[x] |->
                LET cell == data[j][(x - 1) * size + y] IN
                IF cell = "" THEN Nil ELSE cell]
C6_RowsSentInOrder ==
    /\ (pc \in {"copyRows", "copyFlush", "copyCommit"} /\ Parts > 1)
       => /\ pc = "copyRows" => Concat(splits) = columnsOf(tableSchema)
          /\ \A x \in 1..(Parts - 1) : Len(splits[x]) = Len(splits[1])
          /\ \A x \in DOMAIN stmts :
               /\ Len(stmts[x].rows) = pos
               /\ \A j \in 1..pos : stmts[x].rows[j] = ExpectedArgs(j, x)
    /\ (pc = "done" /\ ret.err = "nil") => ret.n = Len(data)
\* Two rows have been sent to two partitions, one cell of them as NULL.
C6_Witness ==
    /\ pc = "copyCommit"
    /\ Parts > 1
    /\ pos = 2
    /\ \E x \in DOMAIN stmts : \E y \in DOMAIN stmts[x].rows[2] :
         y > 1 /\ stmts[x].rows[2][y] = Nil

\* C7: the groups of splitColumns(columns, s), concatenated, are the columns;
\* there is one group when N <= s, and otherwise ceil(N/s) groups, each of s
\* columns but the last, which has N mod s (s when s divides N).
C7_SplitColumns ==
    output.called =>
        LET N == Len(input.columns)
            s == input.n
            g == output.colparts
        IN  /\ Concat(g) = input.columns
            /\ N <= s => Len(g) = 1
            /\ N > s =>
                 /\ Len(g) = (N + s - 1) \div s
                 /\ \A x \in 1..(Len(g) - 1) : Len(g[x]) = s
                 /\ Len(g[Len(g)]) = IF N % s = 0 THEN s ELSE N % s
\* A split into three groups with a shorter tail.
C7_Witness ==
    /\ output.called
    /\ Len(output.colparts) = 3
    /\ Len(output.colparts[3]) < input.n

\* C8: a Replace that gets past the view step has created the view under the
\* target name exactly when there are k > 1 partitions and F + k <= 1664; the
\* view selects the F columns in header order, each from its partition, from
\* partition 0 joined to partitions 1..k-1, each on _row_id with the one before.
C8_ViewIffWithinLimit ==
    (mode = "replace" /\ pc = "analyzeTable") =>
        LET wanted == Parts > 1 /\ NFields + Parts <= 1664 IN
        /\ (tableName \in DOMAIN db.views) <=> wanted
        /\ (Stmt("createView", tableName) \in log) <=> wanted
        /\ wanted =>
             LET v == db.views[tableName]
                 size == Len(splits[1])
             IN  /\ Len(v.columns) = NFields
                 /\ \A c \in DOMAIN v.columns :
                      v.columns[c] = <<schemaName,
                                       PartName(tableName, (c - 1) \div size),
                                       columnsOf(tableSchema)[c]>>
                 /\ v.from = PartName(tableName, 0)
                 /\ Len(v.joins) = Parts - 1
                 /\ \A x \in DOMAIN v.joins :
                      /\ v.joins[x].table = PartName(tableName, x)
                      /\ v.joins[x].left = <<PartName(tableName, x - 1), "_row_id">>
                      /\ v.joins[x].right = <<PartName(tableName, x), "_row_id">>
\* The view has been created at the limit: F + k = 1664.
C8_Witness ==
    /\ mode = "replace"
    /\ pc = "analyzeTable"
    /\ Parts = 2
    /\ NFields + Parts = 1664
    /\ tableName \in DOMAIN db.views

\* C9: createTable tries the sizes 924 and 249 in that order.  It goes on to
\* the next size only after the column-limit error, with the failed attempt
\* rolled back; it returns the splits of the first size whose tables were
\* created; any other error is returned at once; and when both sizes end in
\* the column-limit error it returns an error and the database has the tables
\* it had before.
C9_CreateTableTriesSizesInOrder ==
    /\ Len(attempts) <= 2
    /\ \A x \in DOMAIN attempts : attempts[x].size = <<924, 249>>[x]
    /\ \A x \in 1..(Len(attempts) - 1) : attempts[x].err = colLimitMsg
    /\ pc = "createTable" => (Len(attempts) = sizeIdx - 1 /\ db.tables = pre.tables)
    /\ (pc # "createTable" /\ attempts # <<>>) =>
         LET last == attempts[Len(attempts)] IN
         /\ (last.err = "nil" /\ pc = "copyHeader") =>
              /\ splits = splitColumns(columnsOf(tableSchema), last.size)
              /\ PlanTables(workTable, Parts) \subseteq Relations(db)
         /\ last.err = "err" =>
              /\ pc = "done"
              /\ ret = [n |-> 0, err |-> "err", at |-> "createTable"]
              /\ db.tables = pre.tables
         /\ last.err = colLimitMsg =>
              /\ Len(attempts) = 2
              /\ pc = "done"
              /\ ret = [n |-> 0, err |-> "failed to partition columns", at |-> "createTable"]
              /\ db.tables = pre.tables
\* Both sizes have ended in the column-limit error.
C9_Witness ==
    /\ pc = "done"
    /\ Len(attempts) = 2
    /\ attempts[1].err = colLimitMsg
    /\ attempts[2].err = colLimitMsg

\* C10: an Append issues only create-schema, create-table, copy and analyze
\* statements, all on the target name or its partitions; it draws no temporary
\* name, and no table or view that existed goes away.  A single-table Append
\* that succeeds leaves the target with the rows it had followed by one row
\* per data row, and with the columns it had.
C10_AppendOnlyAdds ==
    mode = "append" =>
        /\ \A st \in log :
             /\ st.op \in {"createSchema", "createTable", "copy", "analyzeTable"}
             /\ st.op # "createSchema" => st.rel \in NamesUnder(tableName)
        /\ tempTableName = ""
        /\ DOMAIN db.tables \ DOMAIN pre.tables \subseteq NamesUnder(tableName)
        /\ DOMAIN pre.tables \subseteq DOMAIN db.tables
        /\ db.views = pre.views
        /\ (pc = "done" /\ ret.err = "nil" /\ Parts = 1) =>
             /\ tableName \in DOMAIN db.tables
             /\ Len(RowsOf(db, tableName)) = Len(RowsOf(pre, tableName)) + Len(data)
             /\ SubSeq(RowsOf(db, tableName), 1, Len(RowsOf(pre, tableName)))
                  = RowsOf(pre, tableName)
             /\ tableName \in DOMAIN pre.tables
                  => db.tables[tableName].columns = pre.tables[tableName].columns
\* A second single-table Append has succeeded after a first: rows on rows.
C10_Witness ==
    /\ mode = "append"
    /\ pc = "done"
    /\ ret.err = "nil"
    /\ Parts = 1
    /\ prev = [mode |-> "append", err |-> "nil", parts |-> 1]
    /\ Len(RowsOf(pre, tableName)) = MaxRows
    /\ Len(RowsOf(db, tableName)) = MaxRows + MaxRows

(***************************************************************************)
(* The CSV reader.                                                         *)
(***************************************************************************)
\* The calls of hist in which Scan returned true: the fields yielded.
Yielded == SelectSeq(hist, LAMBDA h : h.ok)
ScanEnded == result.call = "Scan" /\ ~result.ok

\* The cells of a table in reading order, each with its row and its column.
RECURSIVE Grid(_, _)
Grid(t, r) ==
    IF r > Len(t) THEN <<>>
    ELSE [c \in 1..Len(t[r]) |-> [text |-> t[r][c], line |-> r, column |-> c]]
             \o Grid(t, r + 1)

\* C11: scanning the quoted serialization of a table yields its cells in
\* order, field by field, each with LineNumber and ColumnNumber equal to the
\* row and column of the cell (from 1), no field error, and Err is io.EOF
\* once Scan has returned false after the last cell.
C11_RoundTrip ==
    LET grid == Grid(input.table, 1) IN
    /\ \A k \in DOMAIN hist :
           hist[k].ok =>
               /\ k <= Len(grid)
               /\ hist[k].text = grid[k].text
               /\ hist[k].lineno = grid[k].line
               /\ hist[k].column = grid[k].column
               /\ hist[k].err = NoErr
    /\ ScanEnded => /\ Len(hist) = Len(grid) + 1
                    /\ result.err = EOF
\* A table of two rows with an empty cell, a quote and a comma in its cells
\* has been scanned to the end.
C11_Witness ==
    /\ ScanEnded
    /\ input.table = <<<< <<Quote>>, <<>> >>, << <<Comma>>, <<"a">> >>>>
    /\ Len(Yielded) = 4

\* The physical lines of a text: the bytes between new lines, a last line
\* without one included when it is not empty.
RECURSIVE PhysicalLines(_)
PhysicalLines(text) ==
    IF text = <<>> THEN <<>>
    ELSE IF \E x \in DOMAIN text : text[x] = NewLine
    THEN LET p == CHOOSE x \in DOMAIN text :
                      text[x] = NewLine /\ \A y \in 1..(x - 1) : text[y] # NewLine
         IN  <<SubSeq(text, 1, p - 1)>> \o PhysicalLines(SubSeq(text, p + 1, Len(text)))
    ELSE <<text>>
NonEmptyLines(text) == SelectSeq(PhysicalLines(text), LAMBDA l : l # <<>>)
FieldErrors ==
    {csvErrUnquotedField, csvErrUnescapedQuote, csvErrUnterminatedField}
\* Call k of hist raised a field error.
FieldErrorAt(k) == hist[k].err \in FieldErrors

\* C12: with ContinueOnError, a Scan whose field raises a parse error returns
\* true with Text the rest of the line from the offending field on,
\* EndOfRecord true and Err the field error; the Scan after it yields the
\* first field of the next non-empty line, with an error only if that field
\* raises one, and returns false with io.EOF when no such line is left.
C12_ErrorRecovery ==
    reader.ContinueOnError =>
        \A k \in DOMAIN hist :
            FieldErrorAt(k) =>
                /\ hist[k].ok
                /\ hist[k].text = SubSeq(hist[k].line, hist[k].from + 1, Len(hist[k].line))
                /\ hist[k].text # <<>>
                /\ hist[k].eor
                /\ (hist[k].err = csvErrUnquotedField) = (hist[k].text[1] # Quote)
                /\ k + 1 \in DOMAIN hist =>
                     LET lines == NonEmptyLines(src)
                         next == hist[k + 1]
                     IN  IF hist[k].lineno < Len(lines)
                         THEN /\ next.ok
                              /\ next.line = lines[hist[k].lineno + 1]
                              /\ next.lineno = hist[k].lineno + 1
                              /\ next.column = 1
                              /\ next.from = 0
                              /\ next.err = NoErr \/ (next.err \in FieldErrors
                                                        /\ next.text = next.line)
                         ELSE ~next.ok /\ next.err = EOF
\* A field error on one line has been followed by the first field of the next
\* line, scanned without error.
C12_Witness ==
    /\ reader.ContinueOnError
    /\ src = <<"a", Comma, "a", Quote, NewLine, "a">>
    /\ Len(hist) = 3
    /\ hist[2].err = csvErrUnquotedField
    /\ hist[2].text = <<"a", Quote>>
    /\ hist[3].ok /\ hist[3].err = NoErr /\ hist[3].text = <<"a">>

\* The fields yielded on line l up to call k.
TokensOn(l, k) == Cardinality({j \in 1..k : hist[j].ok /\ hist[j].lineno = l})
\* The separators of a text that no quote encloses: those with an even number
\* of quotes before them.
OpenCommas(text) ==
    {x \in DOMAIN text :
        /\ text[x] = Comma
        /\ Cardinality({y \in 1..(x - 1) : text[y] = Quote}) % 2 = 0}
\* The columns of the line of call k, whose field raised an error: the fields
\* up to the offending one and one more for each separator after it.
ColumnCount(k) == hist[k].column + Cardinality(OpenCommas(hist[k].text))

\* C13, as stated: with ContinueOnError, a line with a field error yields as
\* many tokens as it has columns.
C13_TokensPerLineIsColumnCount ==
    reader.ContinueOnError =>
        \A k \in DOMAIN hist :
            FieldErrorAt(k) => TokensOn(hist[k].lineno, Len(hist)) = ColumnCount(k)
\* C13, amended: with ContinueOnError, a line whose field c raises an error
\* yields exactly c tokens, the c - 1 fields before it and the rest of the
\* line as the last, so never more than it has columns; ColumnNumber counts
\* the tokens of the line.
C13_TokensUpToOffendingField ==
    reader.ContinueOnError =>
        \A k \in DOMAIN hist :
            /\ hist[k].ok => hist[k].column = TokensOn(hist[k].lineno, k)
            /\ FieldErrorAt(k) =>
                 /\ TokensOn(hist[k].lineno, Len(hist)) = hist[k].column
                 /\ hist[k].column <= ColumnCount(k)
\* TestCSVReaderBadInput scanned to the end: its third line, of three columns,
\* has yielded two tokens.
C13_Witness ==
    /\ reader.ContinueOnError
    /\ src = ReaderBadInput
    /\ ScanEnded
    /\ FieldErrorAt(8) /\ hist[8].lineno = 3 /\ hist[8].column = 2
    /\ ColumnCount(8) = 3
    /\ TokensOn(3, Len(hist)) = 2

\* Call k yielded a field that begins where its line ends.
TrailingField(k) == hist[k].ok /\ hist[k].from = Len(hist[k].line)
\* The call after call k is still at the line of call k.
NextOnSameLine(k) == hist[k + 1].lineno = hist[k].lineno /\ hist[k + 1].err # EOF

\* C14, as stated: a separator at the end of a line produces no empty field
\* after it.
C14_NoTrailingEmptyField == \A k \in DOMAIN hist : ~TrailingField(k)
\* C14, amended: a separator at the end of a line produces one more field,
\* empty, in the next column, which ends the record; and EndOfRecord is true
\* after a field exactly when the next Scan leaves the line.
C14_TrailingEmptyFieldEndsRecord ==
    /\ \A k \in DOMAIN hist :
           TrailingField(k) =>
               /\ hist[k].text = <<>>
               /\ hist[k].eor
               /\ hist[k].err = NoErr
               /\ hist[k].line[Len(hist[k].line)] = Comma
               /\ k > 1
               /\ hist[k - 1].lineno = hist[k].lineno
               /\ hist[k].column = hist[k - 1].column + 1
    /\ \A k \in DOMAIN hist :
           (hist[k].ok /\ k + 1 \in DOMAIN hist) =>
               /\ hist[k].eor = ~NextOnSameLine(k)
               /\ (NextOnSameLine(k) /\ hist[k + 1].from = Len(hist[k].line))
                     => TrailingField(k + 1)
\* A line ending in a separator has yielded its trailing empty field, and the
\* scan has gone on to the next line.
C14_Witness ==
    /\ src = <<"a", Comma, NewLine, "a">>
    /\ Len(hist) = 3
    /\ hist[1].text = <<"a">> /\ ~hist[1].eor
    /\ TrailingField(2) /\ hist[2].column = 2 /\ hist[2].eor
    /\ hist[3].ok /\ hist[3].lineno = 2

\* The bytes of the line of call k from the start of its field on.
FieldBytes(k) == SubSeq(hist[k].line, hist[k].from + 1, Len(hist[k].line))
\* The quotes that end a text: how many of its last bytes are quotes.
RECURSIVE QuotesAtEnd(_)
QuotesAtEnd(text) ==
    IF text = <<>> \/ text[Len(text)] # Quote THEN 0
    ELSE 1 + QuotesAtEnd(SubSeq(text, 1, Len(text) - 1))
\* Call k yielded, without error, a quoted field that runs to the end of its
\* line.
QuotedToEndOfLine(k) ==
    /\ hist[k].ok /\ hist[k].err = NoErr /\ hist[k].eor
    /\ FieldBytes(k) # <<>>
    /\ FieldBytes(k)[1] = Quote

\* C15: a quoted field is accepted at the end of a line only when a lone
\* closing quote is its last byte: after the opening quote the line ends in
\* an odd number of quotes, the doubled ones and the closing one.  A line
\* that ends inside the quoted field, as after a doubled quote, is an
\* UnterminatedField.
C15_QuotedFieldNeedsClosingQuote ==
    \A k \in DOMAIN hist :
        QuotedToEndOfLine(k) => QuotesAtEnd(Tail(FieldBytes(k))) % 2 = 1

\* Slots x + 1 .. Len(r) of a slice are the empty string.
ClearedFrom(r, x) == \A y \in (x + 1)..Len(r) : r[y] = <<>>

\* C16: every ScanLine that does not end the input is about the next line
\* (LineNumber moves by one), fills the slice with the fields of that line,
\* returns ExtraColumns exactly when the line has more fields than the slice
\* has slots, and on a field error leaves every slot from the offending
\* field on empty.
C16_ScanLineFillsNextLine ==
    \A k \in DOMAIN hist :
        LET h == hist[k] IN
        h.err # EOF =>
            /\ LineNumber(h.s) = LineNumber(h.s0) + 1
            /\ (h.err = csvErrExtraColumns) = (ColumnNumber(h.s) > Len(h.r))
            /\ h.err \in FieldErrors => ClearedFrom(h.r, ColumnNumber(h.s) - 1)
            /\ h.err = NoErr => h.r[ColumnNumber(h.s)] = Text(h.s)

\* The input of scenario S3 in a reader that continues on error.
ScanningS3 == src = S3Input /\ reader.ContinueOnError
\* What a Scan over S3 leaves: the token, the position and the error.
S3Token(text, l, c, err) == [ok |-> TRUE, text |-> text, lineno |-> l, column |-> c, err |-> err]
\* Call k returned the token t.
Returned(k, t) ==
    /\ k \in DOMAIN hist
    /\ [f \in DOMAIN t |-> hist[k][f]] = t

\* C17, as stated: the first line of S3 yields name, gender and state with no
\* error, the second Joe and M and then the rest of the line with the error
\* UnquotedField.
C17_S3HeaderHasNoError ==
    (ScanningS3 /\ ScanEnded) =>
        /\ Returned(1, S3Token(<<"n","a","m","e">>, 1, 1, NoErr))
        /\ Returned(2, S3Token(<<"g","e","n","d","e","r">>, 1, 2, NoErr))
        /\ Returned(3, S3Token(<<"s","t","a","t","e">>, 1, 3, NoErr))
        /\ Returned(4, S3Token(<<"J","o","e">>, 2, 1, NoErr))
        /\ Returned(5, S3Token(<<"M">>, 2, 2, NoErr))
        /\ Returned(6, S3Token(<<" ",Quote,"G","A",Quote>>, 2, 3, csvErrUnquotedField))
\* C17, amended: the first line of S3 yields name and then, its second field
\* beginning with a space before the quote, the rest of the line with the
\* error UnquotedField; the second line yields Joe and M and then the rest of
\* the line with the error UnquotedField on its third field; the Scan after
\* it returns false with io.EOF.
C17_S3HeaderRaisesUnquotedField ==
    ScanningS3 =>
        /\ Len(hist) >= 1 => Returned(1, S3Token(<<"n","a","m","e">>, 1, 1, NoErr))
        /\ Len(hist) >= 2 =>
             Returned(2, S3Token(SubSeq(ScanLineBadHeader, 8, Len(ScanLineBadHeader)),
                                 1, 2, csvErrUnquotedField))
        /\ Len(hist) >= 3 => Returned(3, S3Token(<<"J","o","e">>, 2, 1, NoErr))
        /\ Len(hist) >= 4 => Returned(4, S3Token(<<"M">>, 2, 2, NoErr))
        /\ Len(hist) >= 5 =>
             Returned(5, S3Token(<<" ",Quote,"G","A",Quote>>, 2, 3, csvErrUnquotedField))
        /\ Len(hist) >= 6 => ~hist[6].ok /\ hist[6].err = EOF
        /\ Len(hist) <= 6
\* S3 scanned to the end: five tokens, two of them with an error.
C17_Witness ==
    /\ ScanningS3 /\ ScanEnded
    /\ Len(hist) = 6
    /\ hist[2].err = csvErrUnquotedField /\ hist[2].lineno = 1
    /\ hist[5].err = csvErrUnquotedField /\ hist[5].lineno = 2

\* C18: for every field Scan yields, LineNumber is the number (from 1) of the
\* physical line of the input that holds the field, the empty lines before
\* it counted, and ColumnNumber the index (from 1) of the field in its line;
\* from one field to the next LineNumber does not decrease, and ColumnNumber
\* is 1 again on each new line.
C18_LineNumberIsPhysicalLine ==
    \A k \in DOMAIN hist :
        hist[k].ok =>
            /\ hist[k].lineno = hist[k].read
            /\ hist[k].column = TokensOn(hist[k].lineno, k)
            /\ k > 1 =>
                 /\ hist[k].lineno >= hist[k - 1].lineno
                 /\ hist[k].lineno > hist[k - 1].lineno => hist[k].column = 1

\* The errors of the CSV reader on a field or on a line.
ParseErrors == FieldErrors \cup {csvErrExtraColumns}
\* Profile has returned.
Profiled == phase = "returned"

\* C19: a parse error of the CSV reader does not end the profiling pass:
\* Profile goes on with the lines that follow and returns a profile, never
\* the parse error.
C19_ParseErrorsRecoverableInProfiling ==
    Profiled => result.ok \/ result.err \notin ParseErrors

\* The profile of a field: its type, whether it is unique, whether it is
\* nullable.
IsProfiled(name, type, unique, nullable) ==
    /\ name \in DOMAIN pf.Fields
    /\ pf.Fields[name].Type = type
    /\ pf.Fields[name].Unique = unique
    /\ pf.Fields[name].Nullable = nullable

\* C20: the profile of scenario S1 has three columns and a record count of
\* 3; name is a String, unique and not null, color a String, not unique and
\* nullable, dob a Date, unique and not null.
C20_S1Profile ==
    (Profiled /\ src = S1Input /\ input.Header) =>
        /\ result.ok
        /\ pf.RecordCount = 3
        /\ Cardinality(DOMAIN pf.Fields) = 3
        /\ IsProfiled(<<"n","a","m","e">>, StringType, TRUE, FALSE)
        /\ IsProfiled(<<"c","o","l","o","r">>, StringType, FALSE, TRUE)
        /\ IsProfiled(<<"d","o","b">>, DateType, TRUE, FALSE)

\* The places of the records profiled that gave column k a value that is not
\* empty, and whether these values differ from each other.
Occurrences(k) ==
    {o \in (DOMAIN hist) \X (DOMAIN header) : header[o[2]] = k /\ hist[o[1]][o[2]] # <<>>}
PairwiseDistinct(k) ==
    \A o1, o2 \in Occurrences(k) :
        o1 # o2 => hist[o1[1]][o1[2]] # hist[o2[1]][o2[2]]
EmptyIn(k, record) == \A x \in DOMAIN header : header[x] = k => record[x] = <<>>
\* C21: after any sequence of records profiled, the Unique flag of a column,
\* in the profiler and in the profile it returns, is true if and only if the
\* values of the column that are not empty differ from each other; a record
\* whose value for the column is empty leaves the flag and the values seen
\* as they were.
C21_UniqueIffDistinct ==
    /\ [](/\ \A k \in DOMAIN prof.Fields : prof.Fields[k].Unique <=> PairwiseDistinct(k)
          /\ result.ok =>
                \A k \in DOMAIN pf.Fields : pf.Fields[k].Unique <=> PairwiseDistinct(k))
    /\ [][\A k \in DOMAIN prof.Fields :
             hist' = Append(hist, out') /\ EmptyIn(k, out') =>
                 /\ prof'.Fields[k].Unique = prof.Fields[k].Unique
                 /\ prof'.Fields[k].Values = prof.Fields[k].Values]_vars
\* A profile returned with a unique column of two values and an empty one,
\* and a column that is not unique.
C21_Witness ==
    /\ result.ok
    /\ \E k \in DOMAIN pf.Fields :
           /\ pf.Fields[k].Unique
           /\ Cardinality(Occurrences(k)) = 2
           /\ \E r \in DOMAIN hist : EmptyIn(k, hist[r])
    /\ \E k \in DOMAIN pf.Fields : ~pf.Fields[k].Unique

\* The type Record observes in a value and the loop of Profile in an empty
\* one; the order of the types, the null type below and the string type above
\* every type; the join of a set of types in this order.
ObservedType(v) ==
    IF v = <<>> THEN NullType
    ELSE IF ParseInt(v) THEN IntType
    ELSE IF ParseFloat(v) THEN FloatType
    ELSE IF ParseBool(v) THEN BoolType
    ELSE IF ParseDate(v) THEN DateType
    ELSE IF ParseDateTime(v) THEN DateTimeType
    ELSE StringType
MoreGeneral(t, u) ==
    \/ t = u
    \/ t = NullType
    \/ u = StringType
    \/ <<t, u>> \in {<<BoolType, IntType>>, <<IntType, FloatType>>, <<BoolType, FloatType>>,
                     <<DateType, DateTimeType>>}
Join(S) ==
    CHOOSE t \in ValueTypes :
        /\ \A u \in S : MoreGeneral(u, t)
        /\ \A w \in ValueTypes : (\A u \in S : MoreGeneral(u, w)) => MoreGeneral(t, w)
ValuesOf(k) ==
    {hist[o[1]][o[2]] : o \in {e \in (DOMAIN hist) \X (DOMAIN header) : header[e[2]] = k}}
ZeroLed(k) == \E v \in ValuesOf(k) : ParseInt(v) /\ v[1] = "0"
Resolved(k) ==
    IF ZeroLed(k) THEN StringType ELSE Join({ObservedType(v) : v \in ValuesOf(k)})
\* C22: the type a column resolves to, in whatever order the map yields its
\* types and in the profile returned, is the join of the types observed in its
\* values, and the string type when a value that parsed as an integer began
\* with the digit 0.
C22_ResolvedTypeIsJoin ==
    /\ \A k \in DOMAIN prof.Fields : Type(prof.Fields[k]) = {Resolved(k)}
    /\ result.ok => \A k \in DOMAIN pf.Fields : pf.Fields[k].Type = Resolved(k)
\* The profile returned for a column of 007 among integers: a string column.
C22_Witness ==
    /\ result.ok
    /\ \E k \in DOMAIN pf.Fields :
           /\ ValuesOf(k) = {<<"0", "0", "7">>, <<"1">>, <<"2">>}
           /\ pf.Fields[k].Type = StringType

\* The pairs of types that generalize to a type other than the string type,
\* in either order.
Generalizations ==
    {<<{BoolType, IntType}, IntType>>, <<{IntType, FloatType}, FloatType>>,
     <<{BoolType, FloatType}, FloatType>>, <<{DateTimeType, DateType}, DateTimeType>>}
\* C23: on every two value types GeneralizeType gives the same type in either
\* order of its arguments, the type itself for a type and itself, the string
\* type when either is the string type, the other type when one is the null
\* type, the integer type for boolean and integer, the float type for integer
\* and float and for boolean and float, the datetime type for datetime and
\* date, and the string type for every other two distinct types that are not
\* null.
C23_GeneralizeTypeLaws ==
    output.called =>
        /\ output.type = GeneralizeType(input.t2, input.t1)
        /\ input.t1 = input.t2 => output.type = input.t1
        /\ StringType \in {input.t1, input.t2} => output.type = StringType
        /\ input.t1 = NullType => output.type = input.t2
        /\ input.t2 = NullType => output.type = input.t1
        /\ \A g \in Generalizations : {input.t1, input.t2} = g[1] => output.type = g[2]
        /\ (/\ input.t1 # input.t2
            /\ NullType \notin {input.t1, input.t2}
            /\ \A g \in Generalizations : {input.t1, input.t2} # g[1])
               => output.type = StringType
\* Float and boolean, in the order the map does not hold, give float.
C23_Witness ==
    /\ output.called
    /\ input = [t1 |-> FloatType, t2 |-> BoolType]
    /\ output.type = FloatType

\* C24: a column that was given an empty value has observed the null type,
\* and in the profile returned its missing flag is true and it is nullable;
\* in the schema made of the profile it is nullable.
C24_EmptyValueSetsMissing ==
    /\ \A k \in DOMAIN prof.Fields :
           <<>> \in ValuesOf(k) => NullType \in prof.Fields[k].Types
    /\ result.ok =>
           \A k \in DOMAIN pf.Fields :
               <<>> \in ValuesOf(k) => pf.Fields[k].Missing /\ pf.Fields[k].Nullable
    /\ (phase = "schema" /\ output.panic = NoErr) =>
           \A x \in DOMAIN output.Fields :
               (~output.Fields[x].nil /\ <<>> \in ValuesOf(output.Fields[x].Name))
                   => output.Fields[x].Nullable

\* The values recorded under the name of field k by the calls so far.
RecordedUnder(k) ==
    {hist[x].v : x \in {y \in DOMAIN hist : hist[y].call = "Record" /\ ToLower(hist[y].name) = k}}
\* C25: after any sequence of Record and RecordType calls, the map of the
\* values seen of a field is there, holding the values recorded under its
\* name, if and only if the field is unique, and is nil when it is not; a
\* field that is not unique never is unique again and its map stays nil.
C25_ValuesKeptIffUnique ==
    /\ [](\A k \in DOMAIN prof.Fields :
             /\ prof.Fields[k].Unique <=> ~prof.Fields[k].Values.nil
             /\ prof.Fields[k].Unique => prof.Fields[k].Values.keys = RecordedUnder(k)
             /\ ~prof.Fields[k].Unique => prof.Fields[k].Values.keys = {})
    /\ [][\A k \in DOMAIN prof.Fields :
             ~prof.Fields[k].Unique =>
                 ~prof'.Fields[k].Unique /\ prof'.Fields[k].Values.nil]_vars
\* A value recorded twice and then another value, under one name.
C25_Witness ==
    /\ Len(hist) = 3
    /\ \A x \in DOMAIN hist : hist[x].call = "Record" /\ ToLower(hist[x].name) = <<"a">>
    /\ hist[1].v = hist[2].v
    /\ hist[3].v # hist[1].v
    /\ ~prof.Fields[<<"a">>].Unique
    /\ prof.Fields[<<"a">>].Values.nil

\* C26: the schema NewSchema makes of the profile of a header of n columns
\* has n fields, the field at each position that of the column at this
\* position of the header, also when names of the header are the same in
\* lower case.
C26_SchemaInHeaderOrder ==
    phase = "schema" =>
        /\ output.panic = NoErr
        /\ Len(output.Fields) = Len(header)
        /\ \A x \in DOMAIN output.Fields :
               ~output.Fields[x].nil /\ output.Fields[x].Name = header[x]

\* The fields of the schema before those of part x of the splits; the table
\* of part x; the definition of a column as the claim has it of a field.
RECURSIVE FieldsBefore(_, _)
FieldsBefore(sp, x) == IF x = 1 THEN 0 ELSE Len(sp[x - 1]) + FieldsBefore(sp, x - 1)
TableOfPart(sp, x) == IF Len(sp) = 1 THEN workTable ELSE PartName(workTable, x - 1)
Constrained(col, f) ==
    /\ col.type = f.Type
    /\ col.constraint \in {"unique", "not null", ""}
    /\ col.constraint = "unique" <=> (f.Unique /\ f.Type # "text")
    /\ col.constraint = "not null" <=> (~(f.Unique /\ f.Type # "text") /\ ~f.Nullable)
\* C27: in every table createTable creates, the definition of the column of a
\* field carries UNIQUE when the field is unique and its type is not text,
\* otherwise NOT NULL when the field is not nullable, otherwise no
\* constraint, and never both.
C27_ConstraintEmission ==
    [][(pc = "createTable" /\ pc' = "copyHeader") =>
           \A x \in DOMAIN splits' :
               TableOfPart(splits', x) \notin Relations(db) =>
                   \A y \in DOMAIN splits'[x] :
                       Constrained(
                           db'.tables[TableOfPart(splits', x)].columns[
                               y + (IF Len(splits') = 1 THEN 0 ELSE 1)],
                           tableSchema.Fields[FieldsBefore(splits', x) + y])]_vars
\* A table of 250 fields created in two parts: among its columns a unique
\* one, a unique text one without a constraint, and one that is not null.
C27_Witness ==
    /\ pc = "copyHeader"
    /\ mode = "replace"
    /\ Len(tableSchema.Fields) = 250
    /\ Len(splits) = 2
    /\ PartName(workTable, 0) \in DOMAIN db.tables
    /\ \E y \in DOMAIN db.tables[PartName(workTable, 0)].columns :
           db.tables[PartName(workTable, 0)].columns[y].constraint = "unique"
    /\ \E y \in DOMAIN db.tables[PartName(workTable, 0)].columns :
           /\ db.tables[PartName(workTable, 0)].columns[y].constraint = ""
           /\ db.tables[PartName(workTable, 0)].columns[y].type = "text"
           /\ tableSchema.Fields[y - 1].Unique
    /\ \E y \in DOMAIN db.tables[PartName(workTable, 0)].columns :
           db.tables[PartName(workTable, 0)].columns[y].constraint = "not null"

\* The source as it is to be read: without a byte order mark at its start,
\* a new line for every carriage return.
Universal(source) ==
    newLines(IF hasBom(source) THEN SubSeq(source, Len(bom) + 1, Len(source)) ELSE source)
\* C28: whatever the source and the parts of it the Read calls are given, no
\* Read returns a negative count, and at io.EOF the bytes returned are the
\* source without a byte order mark at its very start and with a new line
\* for every carriage return, every other byte as it was.
C28_UniversalReader ==
    /\ result.call = "Read" => result.n >= 0
    /\ phase = "eof" => out = Universal(src)

\* Where the goroutine of entry x is, if the tree has an entry x.
WorkerAt(x) == IF x \in DOMAIN workers THEN workers[x].at ELSE "none"
\* C29: loadDir starts a goroutine for each file Walk has visited and for
\* nothing else; the panic or the error of an import is logged by its own
\* goroutine and only a panic of the walk itself ends the program; loadDir
\* returns only when every goroutine it started has finished; and whatever
\* the other imports do, every goroutine started finishes and loadDir
\* returns, unless the walk itself panics.
C29_WorkersIsolated ==
    /\ [](\A x \in DOMAIN input :
             /\ workers[x].at # "none" <=> (x <= walk /\ input[x] = "file")
             /\ (workers[x].import = "error")
                    => LogLine(x, "error importing file") \in hist
             /\ (workers[x].import = "panic" /\ workers[x].at \in {"recovered", "finished"})
                    => recoverLines(x) \subseteq hist
             /\ phase = "returned" => workers[x].at \in {"none", "finished"})
    /\ [](phase = nilInfoPanic => (walk > 0 /\ input[walk] = "nil"))
    /\ \A x \in 1..MaxEntries :
           (WorkerAt(x) = "started") ~> (WorkerAt(x) = "finished" \/ phase = nilInfoPanic)
    /\ <>(phase \in {"returned", nilInfoPanic})
\* loadDir has returned after three imports: one that panicked, one that
\* returned an error and one that returned none.
C29_Witness ==
    /\ phase = "returned"
    /\ \A outcome \in ImportOutcomes :
           \E x \in DOMAIN workers :
               workers[x] = [at |-> "finished", import |-> outcome]

\* C30: a ScanLine that follows one that returned a row or ExtraColumns, and
\* does not end the input, is about a later line than the one before it: it
\* starts at the first field of that line, so that the fields it scanned are
\* no more than the line has up to the last slot it filled, and none of them
\* is a field the line of the call before had left.
C30_ScanLineConsumesLine ==
    \A k \in 1..(Len(hist) - 1) :
        (hist[k].err \in {NoErr, csvErrExtraColumns} /\ hist[k + 1].err # EOF) =>
            /\ LineNumber(hist[k + 1].s) > LineNumber(hist[k].s)
            /\ hist[k + 1].err = NoErr => ColumnNumber(hist[k + 1].s) <= Len(hist[k + 1].r)

\* Profile has profiled a record that ScanLine filled.
ScanLineProfiled ==
    phase = "records" /\ prof.Count > (IF input.Header THEN 0 ELSE 1)
\* C31: when the line ScanLine read has fewer fields than the header, the
\* slots of the slice after its last field are empty, and the profiler has
\* observed the null type in the columns of these slots.
C31_ShortRowTailIsEmpty ==
    (ScanLineProfiled /\ ColumnNumber(reader) < Len(header)) =>
        \A y \in (ColumnNumber(reader) + 1)..Len(header) :
            /\ out[y] = <<>>
            /\ NullType \in prof.Fields[header[y]].Types

\* The fields of a line without quotes: the bytes between separators.
RECURSIVE FieldsOf(_)
FieldsOf(line) ==
    IF \E x \in DOMAIN line : line[x] = Comma
    THEN LET p == CHOOSE x \in DOMAIN line :
                      line[x] = Comma /\ \A y \in 1..(x - 1) : line[y] # Comma
         IN  <<SubSeq(line, 1, p - 1)>> \o FieldsOf(SubSeq(line, p + 1, Len(line)))
    ELSE <<line>>
\* A well-formed text with a header: no quote, no empty line, a first line of
\* names that differ in lower case, and as many fields on every line.
WellFormed(text) ==
    /\ text # <<>>
    /\ \A x \in DOMAIN text : text[x] # Quote
    /\ \A l \in DOMAIN PhysicalLines(text) :
           /\ PhysicalLines(text)[l] # <<>>
           /\ Len(FieldsOf(PhysicalLines(text)[l])) = Len(FieldsOf(PhysicalLines(text)[1]))
    /\ \A x, y \in DOMAIN FieldsOf(PhysicalLines(text)[1]) :
           x # y => ToLower(FieldsOf(PhysicalLines(text)[1])[x])
                        # ToLower(FieldsOf(PhysicalLines(text)[1])[y])
\* C32: on a well-formed text with a header of n names and m rows, m zero
\* included, Profile returns a profile and no error: RecordCount is m, the
\* fields are those of the n names, each with the index of its name in the
\* header.
C32_ProfileOfWellFormed ==
    (phase = "returned" /\ input.Header /\ WellFormed(src)) =>
        /\ result.ok
        /\ pf.RecordCount = Len(PhysicalLines(src)) - 1
        /\ DOMAIN pf.Fields = {ToLower(f) : f \in Range(FieldsOf(PhysicalLines(src)[1]))}
        /\ \A x \in DOMAIN header : pf.Fields[header[x]].Index = x - 1

(***************************************************************************)
(* Import: the profile of the input with the delimiter and the header flag *)
(* of the request, the schema of the profile, and the second reading of    *)
(* the input by copyData with csv.NewReader of encoding/csv, which Replace *)
(* and Append call without either.  The texts hold no quote, so that a     *)
(* record of encoding/csv is the fields between commas of a line that is   *)
(* not empty, and every record must have as many fields as the first.      *)
(***************************************************************************)
MaxImportText == 4
ImportBytes == {"a", "1", Comma, ";", NewLine}
ImportInputs ==
    {<<"a", Comma, "b", NewLine, "1", Comma, "2", NewLine>>,
     <<"a", ";", "b", NewLine, "1", ";", "2", NewLine>>}
ImportTexts == SeqsUpTo(ImportBytes, MaxImportText) \cup ImportInputs
csvErrFieldCount == "wrong number of fields"
\* The records of csv.NewReader(in) over a text.
csvRecords(text) ==
    [l \in DOMAIN NonEmptyLines(text) |-> FieldsOf(NonEmptyLines(text)[l])]
\* The arguments of stmts[0].Exec for a row in a single table of size
\* columns: cargs[:size], with nil (here the empty string) for an empty cell
\* and in the slots the row does not reach.
execArgs(row, size) == [x \in 1..size |-> IF x <= Len(row) THEN row[x] ELSE <<>>]
\* copyData over the records: the first one read and skipped, the others
\* sent; (0, err) when a record has another number of fields than the first;
\* a panic when a row is longer than cargs.
copyRecords(records, size) ==
    IF records = <<>> THEN [n |-> 0, err |-> EOF, rows |-> <<>>]
    ELSE IF \E l \in DOMAIN records : Len(records[l]) # Len(records[1])
    THEN [n |-> 0, err |-> csvErrFieldCount, rows |-> <<>>]
    ELSE IF Len(records) > 1 /\ Len(records[1]) > size + 1
    THEN [n |-> 0, err |-> indexOutOfRange, rows |-> <<>>]
    ELSE [n |-> Len(records) - 1, err |-> NoErr,
          rows |-> [l \in 1..(Len(records) - 1) |->
                       [read |-> records[l + 1], sent |-> execArgs(records[l + 1], size)]]]

InitImport ==
    /\ LoaderInit
    /\ input \in [Header : BOOLEAN, Delimiter : {Comma, ";"}]
    /\ output = NoOutput
    /\ src \in ImportTexts
    /\ reader = DefaultCSVReader(<<>>)
    /\ out = <<>>
    /\ result = NoResult
    /\ hist = <<>>
    /\ prof = NewProfiler(NilConfig)
    /\ header = <<>>
    /\ pf = Nil
    /\ phase = "start"

\* Replace or Append on the input opened again, as far as copyData reads it:
\* hist keeps the rows it read and sent, result what it returned.
ImportLoad ==
    /\ phase = "schema"
    /\ output.panic = NoErr
    /\ \E t \in {copyRecords(csvRecords(src), Len(output.Fields))} :
           /\ hist' = t.rows
           /\ result' = [call |-> "copyData", ok |-> t.err = NoErr, err |-> t.err, n |-> t.n]
    /\ phase' = "loaded"
    /\ UNCHANGED <<dirVars, db, pc, mode, tableSchema, data, tempTableName, loads, sizeIdx,
                   attempts, splits, i, txs, stmts, cargs, pos, rowid, n, ret, pre,
                   prev, log, pureVars, src, reader, out, prof, header, pf>>

NextImport == ProfileHeader \/ ProfileRecord \/ ImportSchema \/ ImportLoad
SpecImport == InitImport /\ [][NextImport]_vars

\* C33: whatever the delimiter and the header flag of the request, when the
\* profile and the load both succeed the rows loaded are as many as the
\* RecordCount of the profile, and each row the load read has one cell for
\* each field of the schema.
C33_TwoPassAgreement ==
    (phase = "loaded" /\ result.ok) =>
        /\ result.n = pf.RecordCount
        /\ \A l \in DOMAIN hist : Len(hist[l].read) = Len(output.Fields)

\* The names a load of any of the widths may give its tables and its view.
TargetNames ==
    {tableName} \cup
    {PartName(tableName, x) :
        x \in 0..((CHOOSE w \in Widths : \A v \in Widths : v <= w) \div partSizes[Len(partSizes)])}
\* C34: after a Replace that returned no error, the tables under the target
\* name are the tables of this load and nothing else, and the only view under
\* it is the view of this load, when it has one.
C34_ReplaceLeavesOnlyNewLoad ==
    (pc = "done" /\ mode = "replace" /\ ret.err = "nil") =>
        /\ DOMAIN db.tables \cap TargetNames = PlanTables(tableName, Parts)
        /\ DOMAIN db.views \cap TargetNames =
               IF viewWanted(Parts, NFields) THEN {tableName} ELSE {}

\* C35: in an Append over several partition tables, no _row_id that copyData
\* sends to a partition equals a _row_id of a row that partition table held
\* before the call.
C35_RowIdsNeverCollide ==
    (mode = "append" /\ Len(splits) > 1) =>
        \A x \in DOMAIN stmts :
            \A y \in DOMAIN stmts[x].rows :
                \A z \in DOMAIN RowsOf(pre, copyTarget(tableName, splits, x)) :
                    stmts[x].rows[y][1] #
                        RowsOf(pre, copyTarget(tableName, splits, x))[z][1]

(***************************************************************************)
(* loadDir's walk function on its own: the schema and the table it derives *)
(* from the path of each file under the root directory.                    *)
(***************************************************************************)
MaxDepth == 2
publicSchema == <<"p", "u", "b", "l", "i", "c">>
DirNames == {<<"a">>, <<"a", "_", "a">>, publicSchema}
BaseNames == {<<"x">>, <<"x", ".", "c">>, <<"y", ".", "c">>}

\* filepath.Rel(rootDir, path) of a file: its directories and its name, each
\* directory followed by the separator.
RECURSIVE relPath(_, _)
relPath(dirs, base) ==
    IF dirs = <<>> THEN base ELSE Head(dirs) \o <<"/">> \o relPath(Tail(dirs), base)
RelPaths == {relPath(q, b) : q \in SeqsUpTo(DirNames, MaxDepth), b \in BaseNames}

\* filepath.Split: the path up to and including the last separator, and the
\* rest.
lastSeparator(path) ==
    IF \E x \in DOMAIN path : path[x] = "/"
    THEN CHOOSE x \in DOMAIN path :
             path[x] = "/" /\ \A y \in (x + 1)..Len(path) : path[y] # "/"
    ELSE 0
filepathSplit(path) ==
    [dir  |-> SubSeq(path, 1, lastSeparator(path)),
     base |-> SubSeq(path, lastSeparator(path) + 1, Len(path))]
\* strings.Split(s, sep)[0]: s up to its first sep, all of s without one.
firstPiece(s, sep) ==
    IF \E x \in DOMAIN s : s[x] = sep
    THEN SubSeq(s, 1, (CHOOSE x \in DOMAIN s :
                          s[x] = sep /\ \A y \in 1..(x - 1) : s[y] # sep) - 1)
    ELSE s
\* strings.Trim(s, cutset) with a cutset of one character.
RECURSIVE trimLeft(_, _)
trimLeft(s, c) == IF s # <<>> /\ Head(s) = c THEN trimLeft(Tail(s), c) ELSE s
RECURSIVE trimRight(_, _)
trimRight(s, c) ==
    IF s # <<>> /\ s[Len(s)] = c THEN trimRight(SubSeq(s, 1, Len(s) - 1), c) ELSE s
stringsTrim(s, c) == trimRight(trimLeft(s, c), c)
\* strings.Replace(s, old, new, -1) with old and new of one character.
stringsReplace(s, old, new) == [x \in DOMAIN s |-> IF s[x] = old THEN new ELSE s[x]]

\* schemaName and tableName of the walk function.
schemaNameOf(dir) ==
    IF stringsReplace(stringsTrim(dir, "/"), "/", "_") = <<>> THEN publicSchema
    ELSE stringsReplace(stringsTrim(dir, "/"), "/", "_")
tableNameOf(base) == firstPiece(base, ".")
requestOf(rpath) ==
    [Path   |-> rpath,
     Schema |-> schemaNameOf(filepathSplit(rpath).dir),
     Table  |-> tableNameOf(filepathSplit(rpath).base)]

\* The files under the root directory, in the order Walk visits them.
InitTargets ==
    /\ LoaderInit
    /\ CsvIdle
    /\ output = NoOutput
    /\ input \in {[files |-> <<p, q>>] : p, q \in RelPaths}
    /\ input.files[1] # input.files[2]

\* The walk function on the next file, as far as the Request.
WalkFile ==
    /\ Len(hist) < Len(input.files)
    /\ hist' = Append(hist, requestOf(input.files[Len(hist) + 1]))
    /\ UNCHANGED <<dirVars, db, pc, mode, tableSchema, data, tempTableName, loads, sizeIdx,
                   attempts, splits, i, txs, stmts, cargs, pos, rowid, n, ret, pre,
                   prev, log, input, output, src, reader, out, result, profVars>>

SpecTargets == InitTargets /\ [][WalkFile]_vars

\* C36: the files of a directory are distinct, and so are the (schema, table)
\* pairs derived for them.
C36_TargetsDistinct ==
    \A x, y \in DOMAIN hist :
        x # y => <<hist[x].Schema, hist[x].Table>> # <<hist[y].Schema, hist[y].Table>>

(***************************************************************************)
(* createTable's column names on their own: cleanFieldName on the names of *)
(* a schema of two fields.                                                 *)
(***************************************************************************)
MaxName == 2
NameChars == {"a", "A", "_", " "}
rowIdName == <<"_", "r", "o", "w", "_", "i", "d">>
FieldNames == (SeqsUpTo(NameChars, MaxName) \ {<<>>}) \cup {rowIdName}

InitClean ==
    /\ LoaderInit
    /\ CsvIdle
    /\ output = NoOutput
    /\ input \in {[names |-> <<p, q>>] : p, q \in FieldNames}
    /\ input.names[1] # input.names[2]

\* The loop of createTable over the fields, as far as columns.
CleanColumns ==
    /\ ~output.called
    /\ output' = [called |-> TRUE,
                  columns |-> [x \in DOMAIN input.names |->
                                  cleanFieldName(input.names[x])]]
    /\ UNCHANGED <<dirVars, db, pc, mode, tableSchema, data, tempTableName, loads, sizeIdx,
                   attempts, splits, i, txs, stmts, cargs, pos, rowid, n, ret, pre,
                   prev, log, input, csvVars, profVars>>

SpecClean == InitClean /\ [][CleanColumns]_vars

\* C37: a cleaned name has only lower-case letters, digits and underscores,
\* no two underscores in a row, and cleaning it again changes nothing; the
\* cleaned names of distinct names are distinct, and none is the row id
\* column.
C37_CleanNames ==
    output.called =>
        /\ \A x \in DOMAIN output.columns :
              /\ Range(output.columns[x])
                    \subseteq Range(LowerChars) \cup Range(DigitChars) \cup {"_"}
              /\ \A y \in 1..(Len(output.columns[x]) - 1) :
                    ~(output.columns[x][y] = "_" /\ output.columns[x][y + 1] = "_")
              /\ cleanFieldName(output.columns[x]) = output.columns[x]
              /\ String(output.columns[x]) # rowIdColumn
        /\ output.columns[1] # output.columns[2]

\* The profiler after Profile's loop over the given records, and what a field
\* of it may resolve to.
RECURSIVE profileRows(_, _, _)
profileRows(p, names, records) ==
    IF records = <<>> THEN p
    ELSE profileRows(Incr(profileRecord(p, names, Head(records), 0)), names, Tail(records))
Resolution(f) ==
    {[Type |-> g.Type, Nullable |-> g.Nullable, Unique |-> g.Unique] : g \in Field(f)}
SameResolution(p1, p2) ==
    /\ DOMAIN p1.Fields = DOMAIN p2.Fields
    /\ \A k \in DOMAIN p1.Fields :
          /\ Resolution(p1.Fields[k]) = Resolution(p2.Fields[k])
          /\ Cardinality(Resolution(p1.Fields[k])) = 1
Reordered(order) == [x \in DOMAIN order |-> hist[order[x]]]
\* C38: the type, the nullability and the uniqueness each column resolves to
\* are the same in whatever order the rows are profiled and in whatever order
\* the types of the column are folded, GeneralizeType being associative on
\* the types observed; the profile returned carries them.
C38_OrderIndependent ==
    /\ \A order \in Orders(DOMAIN hist) :
          SameResolution(prof, profileRows(NewProfiler(NilConfig), header, Reordered(order)))
    /\ \A k \in DOMAIN prof.Fields :
          \A t1, t2, t3 \in prof.Fields[k].Types :
              GeneralizeType(GeneralizeType(t1, t2), t3)
                  = GeneralizeType(t1, GeneralizeType(t2, t3))
    /\ (phase = "returned" /\ result.ok) =>
          \A k \in DOMAIN pf.Fields :
              [Type |-> pf.Fields[k].Type, Nullable |-> pf.Fields[k].Nullable,
               Unique |-> pf.Fields[k].Unique] \in Resolution(prof.Fields[k])
\* A profile returned for three different rows, a column of which has three
\* types to fold.
C38_Witness ==
    /\ phase = "returned"
    /\ result.ok
    /\ Len(hist) >= 3
    /\ \A x, y \in DOMAIN hist : x # y => hist[x] # hist[y]
    /\ \E k \in DOMAIN pf.Fields : Cardinality(prof.Fields[k].Types) = 3

\* The parser of a type accepts a value; the string type has no parser and
\* takes every value.
Accepts(t, v) ==
    IF t = StringType THEN TRUE
    ELSE IF t = IntType THEN ParseInt(v)
    ELSE IF t = FloatType THEN ParseFloat(v)
    ELSE IF t = BoolType THEN ParseBool(v)
    ELSE IF t = DateType THEN ParseDate(v)
    ELSE IF t = DateTimeType THEN ParseDateTime(v)
    ELSE FALSE
\* C39: in a profile returned, every non-empty value of a column is accepted
\* by the parser of the type the column resolved to.
C39_TypeSound ==
    (phase = "returned" /\ result.ok) =>
        \A k \in DOMAIN pf.Fields :
            \A v \in ValuesOf(k) \ {<<>>} : Accepts(pf.Fields[k].Type, v)

(***************************************************************************)
(* A caller that goes on calling Scan after it has returned false.         *)
(***************************************************************************)
MaxScanText == 4
MaxFalse == 3
ScannedFalse == {x \in DOMAIN hist : ~hist[x].ok}

InitScanOn ==
    /\ NotLoading
    /\ src \in SeqsUpTo(CsvBytes, MaxScanText) \cup TestInputs
    /\ \E coe \in BOOLEAN :
           reader = [DefaultCSVReader(src) EXCEPT !.ContinueOnError = coe]
    /\ out = <<>>
    /\ result = NoResult
    /\ hist = <<>>
    /\ ProfIdle

\* One cr.Scan(), whatever the calls before it returned; hist keeps what it
\* returned and what Err returns after it.
CanCall == Cardinality(ScannedFalse) < MaxFalse
CallScanOn ==
    /\ CanCall
    /\ \E t \in {Scan(reader)} :
           /\ reader' = t.s
           /\ result' = [call |-> "Scan", ok |-> t.ok, err |-> Err(t.s)]
           /\ hist' = Append(hist, [ok |-> t.ok, err |-> Err(t.s)])
    /\ UNCHANGED <<dirVars, db, pc, mode, tableSchema, data, tempTableName, loads, sizeIdx,
                   attempts, splits, i, txs, stmts, cargs, pos, rowid, n, ret, pre,
                   prev, log, pureVars, src, out, profVars>>

\* The caller's loop does not stop calling: weak fairness of CallScanOn, which
\* is enabled exactly when CanCall holds, every call lengthening hist.
FairScanOn == []<>(~CanCall) \/ []<><<CallScanOn>>_vars
SpecScanOn == InitScanOn /\ [][CallScanOn]_vars /\ FairScanOn

\* C40: a caller that keeps calling Scan is returned false in the end; after
\* a call that returned false every call returns false; and a reader that
\* does not continue on errors returns false from the call that meets a field
\* error and from every call after it, Err reporting that error throughout.
C40_ScanTerminates ==
    /\ <>(result.call = "Scan" /\ ~result.ok)
    /\ [][(result.call = "Scan" /\ ~result.ok) => ~result'.ok]_vars
    /\ [][(~reader.ContinueOnError /\ reader'.err \in FieldErrors) =>
             /\ ~result'.ok
             /\ result'.err = reader'.err
             /\ reader.err \in FieldErrors => reader'.err = reader.err]_vars
\* Scan has returned false on a field error and has been called twice more.
C40_Witness ==
    /\ ~reader.ContinueOnError
    /\ Len(hist) > MaxFalse
    /\ Cardinality(ScannedFalse) = MaxFalse
    /\ \A x \in ScannedFalse : hist[x].err \in FieldErrors
====
